---- MODULE Spec2Model ----
(***************************************************************************)
(* A model of the transit-filter-api moderation proxy: the rate limiter    *)
(* (src/utils/rateLimit.js, src/server.js), the circuit breaker and error  *)
(* formatter (src/api/config.js) and the chat-completions pipeline         *)
(* (src/api/completions.js).  Times are milliseconds, as Date.now().       *)
(***************************************************************************)
EXTENDS Integers, Sequences, FiniteSets, TLC

VARIABLES
    now,        \* Date.now()
    env,        \* the environment of a run: clock granularity, client connections
    cfg,        \* the configuration snapshot read from the environment variables
    rl,         \* the RateLimiter singleton's maps
    health,     \* config.serviceHealth.secondProvider (the primary breaker)
    grc,        \* globalRequestCounter
    moderationModelIndex,   \* the round-robin index of selectModerationModel
    req,        \* per connection: the request, its handler's position, its response
    passLog     \* history: the checks of the last 60 s that returned "not limited"

vars == <<now, env, cfg, rl, health, grc, moderationModelIndex, req, passLog>>

(***************************************************************************)
(* Bounds of the model.                                                    *)
(***************************************************************************)
HorizonSteps == 3       \* the clock makes at most this many coarse steps
MaxCount == 3           \* no rate-limit counter is pushed beyond this value
MaxChunks == 2          \* chunks relayed in one streaming response

Epoch == 1000 * 1000    \* Date.now() when the process starts (any positive value)

\* The granularity of the clock: 20 s where only windows and breaker holds
\* matter, 40 s for the pipeline, 5 s for the retry loop's backoff.
CoarseStep == 30 * 1000
PipelineStep == 45 * 1000
RetryStep == 5 * 1000
\* the clock runs from Epoch to Epoch + Horizon
Horizon == HorizonSteps * CoarseStep
RetryHorizon == 3 * HorizonSteps * RetryStep

(***************************************************************************)
(* JavaScript values.                                                      *)
(***************************************************************************)
Undef == 0 - 1                              \* undefined, in a numeric slot
Falsy(x) == x = Undef \/ x = 0              \* !x for a number or undefined

ChatPath == "/v1/chat/completions"
ImagesPath == "/v1/images/generations"
ModelsPath == "/v1/models"
Paths == {ChatPath, ImagesPath, ModelsPath}

\* A client IP is the header's string, kept as a sequence of tokens so that
\* the template `global:${ip}` and startsWith('global:') can be computed.
IpA == <<"1.2.3.4">>
IpB == <<"5.6.7.8">>
\* a header value that begins with the prefix of the per-IP total's key
IpG == <<"global:", "1.2.3.4">>
IPs == {IpA, IpB, IpG}
GlobalKey(ip) == <<"global:">> \o ip
StartsWithGlobal(key) == Len(key) > 0 /\ Head(key) = "global:"
Keys == IPs \cup {GlobalKey(ip) : ip \in IPs}

\* A value stored under a key of ipRequestCounts / ipWindowStartTimes:
\* absent, a number, NaN, or an object mapping path -> number.
NoObj == [p \in Paths |-> Undef]
UndefVal == [tag |-> "undef", n |-> 0, m |-> NoObj]
NumVal(k) == [tag |-> "num", n |-> k, m |-> NoObj]
ObjVal(f) == [tag |-> "obj", n |-> 0, m |-> f]
NaNVal == [tag |-> "nan", n |-> 0, m |-> NoObj]
FalsyVal(v) == v.tag \in {"undef", "nan"} \/ (v.tag = "num" /\ v.n = 0)

Min2(a, b) == IF a <= b THEN a ELSE b
Max2(a, b) == IF a >= b THEN a ELSE b

(***************************************************************************)
(* The rate limiter.                                                       *)
(***************************************************************************)
WindowMs == 60000
InactiveThreshold == 300000
DefaultPathLimit == 60

RateLimiterInit ==
    [requestCounts |-> [p \in Paths |-> Undef],
     windowStartTimes |-> [p \in Paths |-> Undef],
     ipRequestCounts |-> [k \in Keys |-> UndefVal],
     ipWindowStartTimes |-> [k \in Keys |-> UndefVal]]

\* this.limits[pathKey] || 60
PathLimit(path) == IF Falsy(cfg.limits[path]) THEN DefaultPathLimit ELSE cfg.limits[path]
\* Math.floor(pathLimit * 0.25)
IpPathLimit(path) == (PathLimit(path) * 25) \div 100
GlobalIpLimit == cfg.globalIpLimit

\* lines 45-51 throw a TypeError (the class body is strict code): the value
\* under ipKey is a non-zero number, on which line 49 cannot create the
\* path's property, or the window start under ipKey is a number, on which
\* line 51 cannot
RLThrows(s, path, ip) ==
    LET v == IF FalsyVal(s.ipRequestCounts[ip]) THEN ObjVal(NoObj)
             ELSE s.ipRequestCounts[ip]
        w == s.ipWindowStartTimes[ip]
    IN  \/ v.tag # "obj"
        \/ Falsy(v.m[path]) /\ ~FalsyVal(w) /\ w.tag # "obj"

\* lines 38-58: create the counters that are missing (or zero), as far as
\* the code gets
RLInitCounters(s, path, ip, t) ==
    LET ipKey == ip
        globalIpKey == GlobalKey(ip)
        s1 == IF Falsy(s.requestCounts[path])
              THEN [s EXCEPT !.requestCounts[path] = 0,
                             !.windowStartTimes[path] = t]
              ELSE s
        s2 == IF FalsyVal(s1.ipRequestCounts[ipKey])
              THEN [s1 EXCEPT !.ipRequestCounts[ipKey] = ObjVal(NoObj)]
              ELSE s1
        s3 == IF s2.ipRequestCounts[ipKey].tag = "obj"
                  /\ Falsy(s2.ipRequestCounts[ipKey].m[path])
              THEN [s2 EXCEPT !.ipRequestCounts[ipKey].m[path] = 0,
                              !.ipWindowStartTimes[ipKey] =
                                  IF FalsyVal(@)
                                  THEN ObjVal([NoObj EXCEPT ![path] = t])
                                  ELSE IF @.tag = "obj"
                                  THEN [@ EXCEPT !.m[path] = t]
                                  ELSE @]
              ELSE s2
        s4 == IF FalsyVal(s3.ipRequestCounts[globalIpKey])
              THEN [s3 EXCEPT !.ipRequestCounts[globalIpKey] = NumVal(0),
                              !.ipWindowStartTimes[globalIpKey] = NumVal(t)]
              ELSE s3
    IN  IF RLThrows(s, path, ip) THEN s3 ELSE s4

\* a variant of the expiry that leaves the per-IP total's window alone
RLExpireNoGlobal(s, path, ip, t) ==
    LET ipKey == ip
        s1 == IF t - s.windowStartTimes[path] > WindowMs
              THEN [s EXCEPT !.requestCounts[path] = 0,
                             !.windowStartTimes[path] = t]
              ELSE s
        s2 == IF /\ s1.ipWindowStartTimes[ipKey].tag = "obj"
                 /\ s1.ipWindowStartTimes[ipKey].m[path] # Undef
                 /\ t - s1.ipWindowStartTimes[ipKey].m[path] > WindowMs
              THEN [s1 EXCEPT !.ipRequestCounts[ipKey].m[path] = 0,
                              !.ipWindowStartTimes[ipKey].m[path] = t]
              ELSE s1
    IN s2

\* lines 60-76: lazy expiry of the three windows
RLExpire(s, path, ip, t) ==
    LET ipKey == ip
        globalIpKey == GlobalKey(ip)
        s1 == IF t - s.windowStartTimes[path] > WindowMs
              THEN [s EXCEPT !.requestCounts[path] = 0,
                             !.windowStartTimes[path] = t]
              ELSE s
        s2 == IF /\ s1.ipWindowStartTimes[ipKey].tag = "obj"
                 /\ s1.ipWindowStartTimes[ipKey].m[path] # Undef
                 /\ t - s1.ipWindowStartTimes[ipKey].m[path] > WindowMs
              THEN [s1 EXCEPT !.ipRequestCounts[ipKey].m[path] = 0,
                              !.ipWindowStartTimes[ipKey].m[path] = t]
              ELSE s1
        \* now - {} is NaN, and NaN > 60000 is false
        s3 == IF /\ s2.ipWindowStartTimes[globalIpKey].tag = "num"
                 /\ t - s2.ipWindowStartTimes[globalIpKey].n > WindowMs
              THEN [s2 EXCEPT !.ipRequestCounts[globalIpKey] = NumVal(0),
                              !.ipWindowStartTimes[globalIpKey] = NumVal(t)]
              ELSE s2
    IN s3

\* a variant of the counting in which the update of the per-IP total is lost
RLIncrementLost(s, path, ip) ==
    [s EXCEPT !.requestCounts[path] = @ + 1,
              !.ipRequestCounts[ip].m[path] = @ + 1]

\* lines 79-81: count the request in the three tiers
RLIncrement(s, path, ip) ==
    [s EXCEPT !.requestCounts[path] = @ + 1,
              !.ipRequestCounts[ip].m[path] = @ + 1,
              \* {}++ is NaN
              !.ipRequestCounts[GlobalKey(ip)] =
                  IF @.tag = "num" THEN NumVal(@.n + 1) ELSE NaNVal]

\* a variant of the verdict that leaves out the per-IP total
RLExceededNoGlobal(s, path, ip) ==
    \/ s.requestCounts[path] > PathLimit(path)
    \/ s.ipRequestCounts[ip].m[path] > IpPathLimit(path)

\* lines 83-98: the verdict
RLExceeded(s, path, ip) ==
    \/ s.requestCounts[path] > PathLimit(path)
    \/ s.ipRequestCounts[ip].m[path] > IpPathLimit(path)
    \* NaN > globalIpLimit is false
    \/ /\ s.ipRequestCounts[GlobalKey(ip)].tag = "num"
       /\ s.ipRequestCounts[GlobalKey(ip)].n > GlobalIpLimit

\* RateLimiter.isRateLimited(path, ip) called at time t: the maps afterwards
\* and the value returned, or that the call threw.
IsRateLimited(s, path, ip, t) ==
    LET s0 == RLInitCounters(s, path, ip, t)
        s1 == RLIncrement(RLExpire(s0, path, ip, t), path, ip)
    IN  IF RLThrows(s, path, ip)
        THEN [rl |-> s0, limited |-> FALSE, threw |-> TRUE]
        ELSE [rl |-> s1, limited |-> RLExceeded(s1, path, ip), threw |-> FALSE]

\* RateLimiter.getRateLimitInfo(path, ip): the header values
GetRateLimitInfo(s, path, ip, t) ==
    LET pathLimit == PathLimit(path)
        ipPathLimit == Max2((pathLimit * 15) \div 10, pathLimit)
        cnt(x) == IF Falsy(x) THEN 0 ELSE x
        start(x) == IF Falsy(x) THEN t ELSE x
        ceilSec(x) == (x + 999) \div 1000
        pathRemaining == Max2(0, pathLimit - cnt(s.requestCounts[path]))
        ipPathRemaining == Max2(0, ipPathLimit - cnt(s.ipRequestCounts[ip].m[path]))
        globalIpRemaining == Max2(0, GlobalIpLimit - cnt(s.ipRequestCounts[GlobalKey(ip)].n))
        pathReset == ceilSec(start(s.windowStartTimes[path])) + 60
        ipPathReset == ceilSec(start(s.ipWindowStartTimes[ip].m[path])) + 60
        globalIpReset == ceilSec(start(s.ipWindowStartTimes[GlobalKey(ip)].n)) + 60
    IN  [limit |-> pathLimit,
         remaining |-> Min2(pathRemaining, Min2(ipPathRemaining, globalIpRemaining)),
         reset |-> Min2(pathReset, Min2(ipPathReset, globalIpReset))]

\* RateLimiter.cleanupInactiveIps(now)
CleanupInactiveIps(s, t) ==
    LET present(k) == s.ipRequestCounts[k].tag # "undef"
        active(k) ==
            IF StartsWithGlobal(k)
            THEN /\ s.ipWindowStartTimes[k].tag = "num"
                 /\ t - s.ipWindowStartTimes[k].n < InactiveThreshold
            ELSE \E p \in Paths :
                    /\ s.ipWindowStartTimes[k].m[p] # Undef
                    /\ t - s.ipWindowStartTimes[k].m[p] < InactiveThreshold
        drop(k) == present(k) /\ ~active(k)
    IN  [s EXCEPT !.ipRequestCounts = [k \in Keys |-> IF drop(k) THEN UndefVal ELSE @[k]],
                  !.ipWindowStartTimes = [k \in Keys |-> IF drop(k) THEN UndefVal ELSE @[k]]]

\* RateLimiter.resetCounters(), the 60 s interval callback
ResetCounters(s, t) ==
    LET expiredPath(p) == s.requestCounts[p] # Undef /\ t - s.windowStartTimes[p] > WindowMs
        expiredGlobal(k) ==
            /\ s.ipRequestCounts[k].tag # "undef"
            /\ StartsWithGlobal(k)
            /\ s.ipWindowStartTimes[k].tag = "num"
            /\ t - s.ipWindowStartTimes[k].n > WindowMs
        expiredIpPath(k, p) ==
            /\ s.ipRequestCounts[k].tag # "undef"
            /\ ~StartsWithGlobal(k)
            /\ s.ipRequestCounts[k].m[p] # Undef
            /\ s.ipWindowStartTimes[k].tag = "obj"
            /\ s.ipWindowStartTimes[k].m[p] # Undef
            /\ t - s.ipWindowStartTimes[k].m[p] > WindowMs
        resetVal(k, v, zero) ==
            IF expiredGlobal(k) THEN NumVal(zero)
            ELSE [v EXCEPT !.m = [p \in Paths |-> IF expiredIpPath(k, p) THEN zero ELSE @[p]]]
        s1 == [requestCounts |-> [p \in Paths |-> IF expiredPath(p) THEN 0 ELSE s.requestCounts[p]],
               windowStartTimes |-> [p \in Paths |-> IF expiredPath(p) THEN t ELSE s.windowStartTimes[p]],
               ipRequestCounts |-> [k \in Keys |-> resetVal(k, s.ipRequestCounts[k], 0)],
               ipWindowStartTimes |-> [k \in Keys |-> resetVal(k, s.ipWindowStartTimes[k], t)]]
    IN  CleanupInactiveIps(s1, t)

(***************************************************************************)
(* The circuit breakers (src/api/config.js).                               *)
(***************************************************************************)
BreakerHoldMs == 60000
GlobalThreshold == 500

ServiceHealthInit ==
    [failureCount |-> 0, lastFailureTime |-> 0, lastCheckTime |-> 0,
     circuitBreakerTripped |-> FALSE, circuitBreakerResetTime |-> 0,
     \* history: the time of the first of the failures that failureCount
     \* counts (of the failures counted at the latest trip, after a trip)
     countingSince |-> 0]

GlobalRequestCounterInit ==
    [count |-> 0, startTime |-> Epoch,
     isCircuitBreakerTripped |-> FALSE, circuitBreakerResetTime |-> 0]

\* the primary breaker is tripped and its hold has not run out at time t
Holding(h, t) == h.circuitBreakerTripped /\ t <= h.circuitBreakerResetTime

\* checkCircuitBreaker(provider) at time t: the health record afterwards and
\* the value returned.  Both providers read the primary's record.
CheckCircuitBreaker(h, provider, t) ==
    LET expired == h.circuitBreakerTripped /\ t > h.circuitBreakerResetTime
        h1 == IF expired
              THEN [h EXCEPT !.circuitBreakerTripped = FALSE, !.failureCount = 0]
              ELSE h
    IN  IF provider = "firstProvider"
        THEN [health |-> h1, ok |-> ~h1.circuitBreakerTripped]
        ELSE IF expired THEN [health |-> h1, ok |-> TRUE]
        ELSE [health |-> h, ok |-> ~h.circuitBreakerTripped]

\* a variant of the recording that keeps the count when it trips the breaker
RecordServiceFailureKeep(h, provider, t) ==
    IF provider = "firstProvider" THEN h
    ELSE
      LET h1 == IF h.lastFailureTime > 0 /\ t - h.lastFailureTime > cfg.errorWindow
                THEN [h EXCEPT !.failureCount = 0]
                ELSE h
          h2 == [h1 EXCEPT !.failureCount = @ + 1,
                           !.lastFailureTime = t,
                           !.lastCheckTime = t,
                           !.countingSince = IF h1.failureCount = 0 THEN t ELSE @]
      IN  IF h2.failureCount > cfg.maxErrors
          THEN [h2 EXCEPT !.circuitBreakerTripped = TRUE,
                          !.circuitBreakerResetTime = t + BreakerHoldMs]
          ELSE h2

\* recordServiceFailure(provider) at time t
RecordServiceFailure(h, provider, t) ==
    IF provider = "firstProvider" THEN h
    ELSE
      LET h1 == IF h.lastFailureTime > 0 /\ t - h.lastFailureTime > cfg.errorWindow
                THEN [h EXCEPT !.failureCount = 0]
                ELSE h
          h2 == [h1 EXCEPT !.failureCount = @ + 1,
                           !.lastFailureTime = t,
                           !.lastCheckTime = t,
                           !.countingSince = IF h1.failureCount = 0 THEN t ELSE @]
      IN  IF h2.failureCount > cfg.maxErrors
          THEN [h2 EXCEPT !.circuitBreakerTripped = TRUE,
                          !.circuitBreakerResetTime = t + BreakerHoldMs,
                          !.failureCount = 0]
          ELSE h2

\* recordServiceFailure called n times in a row at time t
RECURSIVE RecordFailures(_, _, _)
RecordFailures(h, n, t) ==
    IF n = 0 THEN h
    ELSE RecordFailures(RecordServiceFailure(h, "secondProvider", t), n - 1, t)

\* a variant of the callback that clears a trip whenever it runs
CircuitBreakerTickEager(h, t) ==
    [h EXCEPT !.circuitBreakerTripped = FALSE, !.failureCount = 0]

\* the callback of circuitBreakerCheckInterval (every 10 s)
CircuitBreakerTick(h, t) ==
    LET h1 == IF h.circuitBreakerTripped /\ t > h.circuitBreakerResetTime
              THEN [h EXCEPT !.circuitBreakerTripped = FALSE, !.failureCount = 0]
              ELSE h
    IN  IF /\ ~h1.circuitBreakerTripped
           /\ h1.lastFailureTime > 0
           /\ t - h1.lastFailureTime > cfg.errorWindow
        THEN [h1 EXCEPT !.failureCount = 0]
        ELSE h1

\* globalRequestCounter.increment() at time t: the counter afterwards.  No
\* code of the proxy calls it.
GlobalIncrement(g, t) ==
    LET g1 == IF t - g.startTime > 1000
              THEN [g EXCEPT !.count = 0, !.startTime = t]
              ELSE [g EXCEPT !.count = @ + 1]
        g2 == IF g1.count > GlobalThreshold /\ ~g1.isCircuitBreakerTripped
              THEN [g1 EXCEPT !.isCircuitBreakerTripped = TRUE,
                              !.circuitBreakerResetTime = t + 60000]
              ELSE g1
    IN  IF g2.isCircuitBreakerTripped /\ t > g2.circuitBreakerResetTime
        THEN [g2 EXCEPT !.isCircuitBreakerTripped = FALSE]
        ELSE g2

\* globalRequestCounter.isTripped() at time t
GlobalIsTripped(g, t) ==
    IF g.isCircuitBreakerTripped
    THEN IF t > g.circuitBreakerResetTime
         THEN [grc |-> [g EXCEPT !.isCircuitBreakerTripped = FALSE, !.count = 0],
               tripped |-> FALSE]
         ELSE [grc |-> g, tripped |-> TRUE]
    ELSE [grc |-> g, tripped |-> FALSE]

(***************************************************************************)
(* Error objects and the error formatter.                                  *)
(*   msg     error.message ("none": a thrown plain object)                 *)
(*   status  error.response.status (0: the error carries no response)      *)
(*   dmsg, dtype, dcode   error.response.data.error.{message,type,code}    *)
(*           (dmsg = "none": the body has no error member)                 *)
(*   ecode, cb   error.error.code, error.error.circuit_breaker             *)
(***************************************************************************)
NoError ==
    [msg |-> "none", status |-> 0, dmsg |-> "none", dtype |-> "none", dcode |-> "none",
     nonRetryable |-> FALSE, ecode |-> "none", cb |-> FALSE]

\* thrown by sendToSecondProvider and performModeration when the breaker is open
BreakerOpenError ==
    [NoError EXCEPT !.ecode = "service_unavailable", !.cb = TRUE]

\* the o3 temperature error built by sendToSecondProvider
TemperatureError ==
    [NoError EXCEPT !.msg = "o3_temperature", !.status = 400,
                    !.dmsg = "o3_temperature", !.dtype = "invalid_request_error",
                    !.dcode = "invalid_temperature", !.nonRetryable = TRUE]

\* thrown by performModeration on a verdict with isViolation === true
ViolationError ==
    [NoError EXCEPT !.ecode = "content_violation"]

\* selectModerationModel with no model configured, as rethrown by performModeration
ModelConfigError ==
    [NoError EXCEPT !.ecode = "internal_error"]

\* An error of an axios call: an HTTP status with a body that has or lacks an
\* error member, or no response at all (status 0: network error, timeout).
AxiosError(status, jsonBody) ==
    [NoError EXCEPT !.msg = "axios",
                    !.status = status,
                    !.dmsg = IF status # 0 /\ jsonBody THEN "provider" ELSE "none",
                    !.dtype = IF status # 0 /\ jsonBody THEN "provider" ELSE "none",
                    !.dcode = IF status # 0 /\ jsonBody THEN "provider" ELSE "none"]

\* JSON.parse or the property access on the moderation reply throws
ParseError == [NoError EXCEPT !.msg = "parse"]

\* the error sendToSecondProvider ends up throwing for a streaming response
\* whose status is not 200: the one built in the catch (parseError) block
StreamStatusError(status) ==
    [NoError EXCEPT !.msg = "stream_unparseable", !.status = status,
                    !.dmsg = "raw_body"]

OrNum(a, b) == IF a = 0 THEN b ELSE a
OrStr(a, b) == IF a = "none" THEN b ELSE a

\* handleError(error): the error member of the envelope.  code is a number.
HandleError(e) ==
    IF e.status # 0 /\ e.dmsg # "none"
    THEN [message |-> e.dmsg,
          type |-> OrStr(e.dtype, "service_error"),
          code |-> OrNum(e.status, 500),
          provider_code |-> e.dcode]
    ELSE [message |-> OrStr(e.msg, "internal"),
          type |-> "service_error",
          code |-> OrNum(e.status, 500),
          provider_code |-> "none"]

(***************************************************************************)
(* Moderation model selection and the retry engine's arithmetic.           *)
(***************************************************************************)
\* a variant of the selection that falls back to a model when none is configured
SelectModerationModelDefault(models, idx) ==
    IF Len(models) = 0 THEN [model |-> "m1", index |-> idx]
    ELSE IF Len(models) = 1 THEN [model |-> models[1], index |-> idx]
    ELSE [model |-> models[idx + 1], index |-> (idx + 1) % Len(models)]

\* a variant of the selection that leaves the index where it is
SelectModerationModelStuck(models, idx) ==
    IF Len(models) = 0 THEN [model |-> "none", index |-> idx]
    ELSE [model |-> models[idx + 1], index |-> idx]

\* selectModerationModel('round-robin'): the model chosen ("none": it throws)
\* and the index afterwards
SelectModerationModel(models, idx) ==
    IF Len(models) = 0 THEN [model |-> "none", index |-> idx]
    ELSE IF Len(models) = 1 THEN [model |-> models[1], index |-> idx]
    ELSE [model |-> models[idx + 1], index |-> (idx + 1) % Len(models)]

RECURSIVE Pow(_, _)
Pow(b, n) == IF n = 0 THEN 1 ELSE b * Pow(b, n - 1)

MaxBackoffMs == 10000
\* a variant of the backoff that does not wait
ActualRetryDelayNone(retryCount) == 0

\* Math.min(retryDelay * Math.pow(1.5, retryCount - 1), 10000)
ActualRetryDelay(retryCount) ==
    Min2((cfg.retryDelay * Pow(3, retryCount - 1)) \div Pow(2, retryCount - 1), MaxBackoffMs)

NonRetryableStatuses == {400, 401, 403, 404, 422}

(***************************************************************************)
(* Requests and responses.                                                 *)
(***************************************************************************)
Methods == {"POST", "GET", "OPTIONS"}
Temperatures == {Undef, 0, 7}           \* absent, 0, 0.7 (in tenths)

\* What the dispatcher and the handlers read of an inbound chat request:
\*   auth      the Authorization header equals "Bearer " + config.authKey
\*   sentinel  some system message contains the INTERNAL_MODERATION_FLAG text
\*   o3        model.toLowerCase().includes('o3')
\*   whitelisted  the model matches an entry of WHITELISTED_MODELS; the
\*             variable is documented in .env.example and nothing reads it,
\*             so the field is carried by the request and never consulted
RequestInputs ==
    {i \in [method : Methods, auth : BOOLEAN, sentinel : BOOLEAN, stream : BOOLEAN,
            o3 : BOOLEAN, temperature : Temperatures, ip : IPs,
            whitelisted : BOOLEAN] :
        \* whitelisted models are drawn for plain authenticated unary requests
        /\ i.whitelisted =>
              i.method = "POST" /\ i.auth /\ ~i.sentinel /\ ~i.stream /\ ~i.o3
        \* the temperature is read for o3 models only
        /\ ~i.o3 => i.temperature = 7
        \* only the method is read of a request that is not a POST
        /\ i.method # "POST" =>
              ~i.auth /\ ~i.sentinel /\ ~i.stream /\ ~i.o3}

NoBody ==
    [type |-> "none", code |-> "none", ncode |-> 0, provider_code |-> "none",
     message |-> "none", circuit_breaker |-> FALSE, reason |-> "none"]
\* { error: { type, code } } with a string code
ErrorBody(type, code) == [NoBody EXCEPT !.type = type, !.code = code]
\* the envelope made of handleError's result
FormattedBody(e) ==
    LET f == HandleError(e)
    IN  [NoBody EXCEPT !.type = f.type, !.ncode = f.code, !.message = f.message,
                       !.provider_code = f.provider_code]
\* JSON.stringify of a thrown plain object { error: {...} }
ThrownBody(e) ==
    [NoBody EXCEPT !.type = IF e.ecode = "content_violation"
                            THEN "invalid_request_error" ELSE "service_error",
                   !.code = e.ecode, !.circuit_breaker = e.cb]
\* the envelope handleNormal / handleStream build for a breaker error
BreakerBody ==
    [NoBody EXCEPT !.type = "service_error", !.code = "service_unavailable",
                   !.circuit_breaker = TRUE]
\* the primary provider's JSON, relayed
OkBody == [NoBody EXCEPT !.type = "completion"]

NoVerdict == [got |-> FALSE, isViolation |-> "none", riskLevel |-> 0]
NoHeaders == [limit |-> 0, remaining |-> 0, reset |-> 0]

\* what res.write puts on the wire; seq tells the upstream chunks apart
DoneFrame == [kind |-> "done", body |-> NoBody, seq |-> 0]
ErrorFrame(b) == [kind |-> "error", body |-> b, seq |-> 0]
ChunkFrame == [kind |-> "chunk", body |-> NoBody, seq |-> 0]
\* the i-th chunk the upstream stream emits
Chunk(i) == [ChunkFrame EXCEPT !.seq = i]

IdleRequest ==
    [pc |-> "idle",
     method |-> "POST", auth |-> FALSE, sentinel |-> FALSE, stream |-> FALSE,
     o3 |-> FALSE, temperature |-> Undef, ip |-> IpA, whitelisted |-> FALSE,
     path |-> ChatPath,
     model |-> "none",
     skipModeration |-> FALSE,
     retryCount |-> 0, lastError |-> NoError, startTime |-> 0, wakeAt |-> 0,
     checkInterval |-> FALSE, tickAt |-> 0, lastDataTime |-> 0, received |-> 0,
     status |-> 0, body |-> NoBody, rateHeaders |-> NoHeaders,
     ended |-> FALSE, frames |-> <<>>, wroteAfterEnd |-> FALSE,
     \* history of the request
     rlChecks |-> 0, modCalls |-> 0, sendCalls |-> 0, primCalls |-> 0, sleeps |-> 0,
     verdict |-> NoVerdict, limitedBy |-> "none", openAtStart |-> FALSE,
     disconnected |-> FALSE,
     lastReply |-> [status |-> 0, json |-> FALSE],
     \* the messages given to the sampler, and its result
     messages |-> <<>>,
     sampled |-> [messages |-> <<>>, isExtracted |-> FALSE,
                  originalLength |-> 0, extractedLength |-> 0]]

\* res.write(frame) on the client response: nothing reaches the wire once
\* the response has ended
Write(rq, frame) ==
    IF rq.ended THEN [rq EXCEPT !.wroteAfterEnd = TRUE]
    ELSE [rq EXCEPT !.frames = Append(@, frame),
                    !.status = IF @ = 0 THEN 200 ELSE @]
\* res.end()
End(rq) == [rq EXCEPT !.ended = TRUE, !.status = IF @ = 0 THEN 200 ELSE @]

\* a variant of the answer that sets status and body and leaves the response open
SendJsonOpen(rq, status, body) ==
    [rq EXCEPT !.pc = "done", !.status = status, !.body = body]

\* res.statusCode = status; res.end(JSON.stringify(body))
SendJson(rq, status, body) ==
    [rq EXCEPT !.pc = "done", !.status = status, !.body = body, !.ended = TRUE]

\* res.write(error frame); res.write('data: [DONE]'); res.end()
SendErrorFrames(rq, body) ==
    [End(Write(Write(rq, ErrorFrame(body)), DoneFrame)) EXCEPT !.pc = "done"]

\* the status handleNormal sets from a formatted error: code || 500
StatusOf(body) == OrNum(body.ncode, 500)

(***************************************************************************)
(* The providers, as the proxy sees them.                                  *)
(***************************************************************************)
RiskLevels == {1, 5}
\* The moderation provider's reply to axios.post: a 2xx reply whose content
\* parses to a verdict (isViolation is true, false, or something else, such
\* as a string or a missing member), a 2xx reply that does not parse, a
\* non-2xx status, or no reply at all (status 0).
ModerationOutcomes ==
    {[kind |-> "verdict", isViolation |-> v, riskLevel |-> k, status |-> 200] :
        v \in {"true", "false", "other"}, k \in RiskLevels}
    \cup {[kind |-> "unparseable", isViolation |-> "none", riskLevel |-> 0, status |-> 200]}
    \cup {[kind |-> "failed", isViolation |-> "none", riskLevel |-> 0, status |-> st] :
            st \in {0, 500}}

\* The primary provider's reply: an HTTP status (0: no reply), and whether an
\* error body is JSON of the form { error: {...} }.
PrimaryStatuses == {0, 200, 400, 500}
PrimaryOutcomes == [status : PrimaryStatuses, json : BOOLEAN]

(***************************************************************************)
(* src/server.js: processRequest and rateLimitMiddleware.                  *)
(***************************************************************************)
RateLimitBody == ErrorBody("rate_limit_error", "rate_limit_exceeded")

\* a variant of the middleware that reports the limit without answering
RateLimitMiddlewareSilent(rq, s, path, t) ==
    LET r == IsRateLimited(s, path, rq.ip, t)
    IN  [rl |-> r.rl, limited |-> r.limited, threw |-> r.threw,
         rq |-> [rq EXCEPT !.rlChecks = @ + 1]]

\* the body processRequest sends when the route's handler has thrown
ServerErrorBody == [ErrorBody("service_error", "none") EXCEPT !.ncode = 500,
                                                              !.message = "internal"]

\* rateLimitMiddleware(req, res, path) at time t: the limiter's maps and the
\* request afterwards, and the value returned; an exception of isRateLimited
\* reaches the catch of processRequest, which answers 500
RateLimitMiddleware(rq, s, path, t) ==
    LET r == IsRateLimited(s, path, rq.ip, t)
        info == GetRateLimitInfo(r.rl, path, rq.ip, t)
        counted == [rq EXCEPT !.rlChecks = @ + 1, !.rateHeaders = info]
    IN  [rl |-> r.rl,
         limited |-> r.limited,
         threw |-> r.threw,
         rq |-> IF r.threw
                THEN SendJson([rq EXCEPT !.rlChecks = @ + 1], 500, ServerErrorBody)
                ELSE IF r.limited THEN SendJson(counted, 429, RateLimitBody)
                ELSE counted]

CountsBelowCap(s, path, ip) ==
    /\ s.requestCounts[path] < env.cap
    /\ s.ipRequestCounts[ip].m[path] < env.cap
    /\ s.ipRequestCounts[GlobalKey(ip)].n < env.cap

\* processRequest for POST /v1/chat/completions: the body is read and parsed,
\* the rate limiter is consulted, and the request goes to completions.js
ServerReceive(c) ==
    /\ req[c].pc = "idle"
    /\ \E inp \in env.inputs :
         LET fresh == [IdleRequest EXCEPT
                          !.method = inp.method, !.auth = inp.auth,
                          !.sentinel = inp.sentinel, !.stream = inp.stream,
                          !.o3 = inp.o3, !.temperature = inp.temperature,
                          !.ip = inp.ip, !.whitelisted = inp.whitelisted]
             m == RateLimitMiddleware(fresh, rl, ChatPath, now)
         IN  /\ CountsBelowCap(rl, ChatPath, inp.ip)
             /\ rl' = m.rl
             /\ req' = [req EXCEPT ![c] =
                          IF m.threw THEN m.rq
                          ELSE IF m.limited
                          THEN [m.rq EXCEPT !.limitedBy = "server"]
                          ELSE [m.rq EXCEPT !.pc = "completions"]]
    /\ UNCHANGED <<now, env, cfg, health, grc, moderationModelIndex, passLog>>

(***************************************************************************)
(* src/api/completions.js: the dispatcher (module.exports).                *)
(***************************************************************************)
\* the request performModeration posts to the moderation provider: its
\* system message ends with the INTERNAL_MODERATION_FLAG text
ModerationRequest == [method |-> "POST", sentinel |-> TRUE, stream |-> FALSE]

\* a variant of the check that never recognises the flag
IsInternalModerationRequestNever(rq) == FALSE

\* req.body.messages.some(msg => msg.role === 'system' && ... includes(FLAG))
IsInternalModerationRequest(rq) == rq.sentinel

Dispatch(c) ==
    LET rq == req[c]
        g == GlobalIsTripped(grc, now)
        m == RateLimitMiddleware(rq, rl, ChatPath, now)
    IN
    /\ rq.pc = "completions"
    /\ IF rq.method = "OPTIONS" THEN
            /\ req' = [req EXCEPT ![c] = [End(rq) EXCEPT !.pc = "done"]]
            /\ UNCHANGED <<rl, grc>>
       ELSE IF rq.method # "POST" THEN
            /\ req' = [req EXCEPT ![c] =
                  SendJson(rq, 405, ErrorBody("invalid_request_error", "method_not_allowed"))]
            /\ UNCHANGED <<rl, grc>>
       ELSE IF g.tripped THEN
            /\ grc' = g.grc
            /\ req' = [req EXCEPT ![c] =
                  SendJson(rq, 429, [RateLimitBody EXCEPT
                                        !.reason = "global_circuit_breaker_tripped"])]
            /\ UNCHANGED rl
       ELSE IF IsInternalModerationRequest(rq) THEN
            \* an internal moderation request: straight to the handler
            /\ grc' = g.grc
            /\ req' = [req EXCEPT ![c] = [rq EXCEPT !.pc = "handler", !.skipModeration = TRUE]]
            /\ UNCHANGED rl
       ELSE
            /\ CountsBelowCap(rl, ChatPath, rq.ip)
            /\ grc' = g.grc
            /\ rl' = m.rl
            /\ req' = [req EXCEPT ![c] =
                  IF m.threw THEN m.rq
                  ELSE IF m.limited THEN [m.rq EXCEPT !.limitedBy = "dispatcher"]
                  ELSE IF ~rq.auth
                  THEN SendJson(m.rq, 401, ErrorBody("authentication_error", "invalid_auth_key"))
                  ELSE [m.rq EXCEPT !.pc = "handler", !.skipModeration = FALSE]]
    /\ UNCHANGED <<now, env, cfg, health, moderationModelIndex, passLog>>

(***************************************************************************)
(* handleNormal and handleStream.                                          *)
(***************************************************************************)
WatchdogPeriodMs == 10000

\* clearInterval(checkInterval)
ClearInterval(rq) == [rq EXCEPT !.checkInterval = FALSE, !.tickAt = 0]

\* a variant of the handler that forwards the request when moderation could
\* not be done
ModerationCatchOpen(rq, e) ==
    IF e.ecode = "content_violation" THEN
        IF rq.stream THEN SendErrorFrames(rq, ThrownBody(e))
        ELSE SendJson(rq, 403, ThrownBody(e))
    ELSE IF e.cb THEN
        IF rq.stream THEN SendErrorFrames(rq, BreakerBody)
        ELSE SendJson(rq, 503, BreakerBody)
    ELSE [rq EXCEPT !.pc = "attempt", !.retryCount = 0]

\* What the handler does with an error thrown by performModeration
ModerationCatch(rq, e) ==
    IF e.ecode = "content_violation" THEN
        IF rq.stream THEN SendErrorFrames(rq, ThrownBody(e))
        ELSE SendJson(rq, 403, ThrownBody(e))
    ELSE IF e.cb THEN
        IF rq.stream THEN SendErrorFrames(rq, BreakerBody)
        ELSE SendJson(rq, 503, BreakerBody)
    ELSE
        \* rethrown to the handler's outer catch
        IF rq.stream THEN SendErrorFrames(ClearInterval(rq), FormattedBody(e))
        ELSE SendJson(rq, StatusOf(FormattedBody(e)), FormattedBody(e))

\* What the handler does with an error thrown by retryRequest
ForwardCatch(rq, e) ==
    IF rq.stream THEN SendErrorFrames(ClearInterval(rq), FormattedBody(e))
    ELSE SendJson(rq, StatusOf(FormattedBody(e)), FormattedBody(e))

\* The handler from its first line to its first await: the watchdog is set
\* (streaming), then performModeration runs up to axios.post, or, when
\* moderation is skipped, retryRequest is entered.
HandlerStart(c) ==
    LET rq0 == [req[c] EXCEPT !.openAtStart = Holding(health, now)]
        rq == IF rq0.stream
              THEN [rq0 EXCEPT !.checkInterval = TRUE, !.lastDataTime = now,
                               !.tickAt = now + WatchdogPeriodMs]
              ELSE rq0
        cb == CheckCircuitBreaker(health, "firstProvider", now)
        sel == SelectModerationModel(cfg.models, moderationModelIndex)
    IN
    /\ rq0.pc = "handler"
    /\ IF rq.skipModeration THEN
            /\ req' = [req EXCEPT ![c] =
                          [rq EXCEPT !.pc = "attempt", !.startTime = now, !.retryCount = 0]]
            /\ UNCHANGED <<health, moderationModelIndex>>
       ELSE IF ~cb.ok THEN
            /\ health' = cb.health
            /\ req' = [req EXCEPT ![c] = ModerationCatch(rq, BreakerOpenError)]
            /\ UNCHANGED moderationModelIndex
       ELSE IF sel.model = "none" THEN
            /\ health' = cb.health
            /\ req' = [req EXCEPT ![c] = ModerationCatch(rq, ModelConfigError)]
            /\ UNCHANGED moderationModelIndex
       ELSE
            /\ health' = cb.health
            /\ moderationModelIndex' = sel.index
            /\ req' = [req EXCEPT ![c] = [rq EXCEPT !.pc = "mod_wait", !.modCalls = @ + 1,
                                                    !.model = sel.model]]
    /\ UNCHANGED <<now, env, cfg, rl, grc, passLog>>

\* a variant of the test that goes by the risk level alone
IsViolationByRisk(o) == o.riskLevel = 5

\* moderationResult.isViolation === true
IsViolation(o) == o.isViolation = "true"

\* performModeration from the reply of axios.post on, and the handler's
\* reaction to its result
ModerationResponse(c) ==
    LET rq == req[c] IN
    /\ rq.pc = "mod_wait"
    /\ \E o \in ModerationOutcomes :
         LET h1 == RecordServiceFailure(health, "firstProvider", now)
             cb == CheckCircuitBreaker(h1, "firstProvider", now)
             seen == [rq EXCEPT !.verdict =
                         IF o.kind = "verdict"
                         THEN [got |-> TRUE, isViolation |-> o.isViolation,
                               riskLevel |-> o.riskLevel]
                         ELSE @]
         IN
         IF o.kind = "verdict" /\ ~IsViolation(o) THEN
              \* passed: retryRequest is entered
              /\ req' = [req EXCEPT ![c] =
                            [seen EXCEPT !.pc = "attempt", !.startTime = now, !.retryCount = 0]]
              /\ UNCHANGED health
         ELSE IF o.kind = "verdict" THEN
              /\ health' = h1
              /\ req' = [req EXCEPT ![c] = ModerationCatch(seen, ViolationError)]
         ELSE
              /\ health' = cb.health
              /\ req' = [req EXCEPT ![c] =
                    IF ~cb.ok THEN ModerationCatch(seen, BreakerOpenError)
                    ELSE IF o.kind = "unparseable" THEN ModerationCatch(seen, ParseError)
                    ELSE ModerationCatch(seen, AxiosError(o.status, TRUE))]
    /\ UNCHANGED <<now, env, cfg, rl, grc, moderationModelIndex, passLog>>

(***************************************************************************)
(* retryRequest and sendToSecondProvider.                                  *)
(***************************************************************************)
\* a variant of tryRequest that replaces the error by a timeout error of its own
TryRequestCatchSynthetic(e) ==
    [NoError EXCEPT !.msg = "retry_timeout", !.status = 504]

\* the catch block of tryRequest: the error it rethrows
TryRequestCatch(e) ==
    IF e.nonRetryable \/ (e.status # 0 /\ e.status \in NonRetryableStatuses)
    THEN e
    ELSE e

\* retryRequest's reaction to an error thrown by requestFn at time t: the
\* error leaves retryRequest (and the handler answers), or a backoff sleep
\* starts
RetryCatch(rq, e, t) ==
    IF cfg.enableRetry # TRUE
    THEN ForwardCatch(rq, [e EXCEPT !.nonRetryable = TRUE])
    ELSE
      LET n == rq.retryCount + 1
          thrown == TryRequestCatch(e)
          elapsedTime == t - rq.startTime
          nextRetryTime == elapsedTime + cfg.retryDelay
      IN  IF nextRetryTime >= cfg.maxRetryTime \/ n >= cfg.maxRetryCount
          THEN ForwardCatch([rq EXCEPT !.retryCount = n, !.lastError = e], thrown)
          ELSE [rq EXCEPT !.retryCount = n,
                          !.lastError = e,
                          !.pc = "sleep",
                          !.wakeAt = t + ActualRetryDelay(n),
                          !.sleeps = @ + 1]

\* the catch block of sendToSecondProvider: the error it rethrows
SendCatch(e) ==
    IF cfg.enableRetry # TRUE THEN [e EXCEPT !.nonRetryable = TRUE] ELSE e

\* One call of requestFn: sendToSecondProvider up to axios.post
Attempt(c) ==
    LET rq == [req[c] EXCEPT !.sendCalls = @ + 1]
        cb == CheckCircuitBreaker(health, "secondProvider", now)
        temperature == IF rq.temperature = Undef THEN 0 ELSE rq.temperature
    IN
    /\ req[c].pc = "attempt"
    /\ health' = cb.health
    /\ req' = [req EXCEPT ![c] =
          IF ~cb.ok THEN RetryCatch(rq, BreakerOpenError, now)
          ELSE IF rq.o3 /\ temperature # 0 THEN RetryCatch(rq, TemperatureError, now)
          ELSE [rq EXCEPT !.pc = "prim_wait", !.primCalls = @ + 1]]
    /\ UNCHANGED <<now, env, cfg, rl, grc, moderationModelIndex, passLog>>

\* how many times sendToSecondProvider calls recordServiceFailure for a reply
FailuresRecorded(stream, o) ==
    IF o.status = 200 THEN 0
    ELSE IF ~stream \/ o.status = 0 THEN 1
    ELSE IF o.json THEN 3
    ELSE 2

\* sendToSecondProvider from the reply of axios.post on, and the reaction of
\* retryRequest and of the handler
PrimaryResponse(c) ==
    LET rq == req[c] IN
    /\ rq.pc = "prim_wait"
    /\ \E o \in PrimaryOutcomes :
         LET e == IF rq.stream /\ o.status # 0
                  THEN StreamStatusError(o.status)
                  ELSE AxiosError(o.status, o.json)
             seen == [rq EXCEPT !.lastReply =
                         [status |-> o.status,
                          json |-> o.status \notin {0, 200} /\ o.json]]
         IN
         /\ health' = RecordFailures(health, FailuresRecorded(rq.stream, o), now)
         /\ req' = [req EXCEPT ![c] =
               IF o.status = 200
               THEN IF rq.stream THEN [seen EXCEPT !.pc = "streaming"]
                    ELSE SendJson(seen, 200, OkBody)
               ELSE RetryCatch(seen, SendCatch(e), now)]
    /\ UNCHANGED <<now, env, cfg, rl, grc, moderationModelIndex, passLog>>

\* the backoff timer of retryRequest fires
Wake(c) ==
    /\ req[c].pc = "sleep"
    /\ now >= req[c].wakeAt
    /\ req' = [req EXCEPT ![c].pc = "attempt"]
    /\ UNCHANGED <<now, env, cfg, rl, health, grc, moderationModelIndex, passLog>>

(***************************************************************************)
(* The streaming relay.                                                    *)
(***************************************************************************)
NumChunks(rq) == Cardinality({i \in DOMAIN rq.frames : rq.frames[i].kind = "chunk"})

\* a variant of the data callback that writes each chunk twice
StreamDataTwice(c) ==
    /\ req[c].pc = "streaming"
    /\ req[c].received < MaxChunks
    /\ req' = [req EXCEPT ![c] =
                  Write(Write([@ EXCEPT !.lastDataTime = now, !.received = @ + 1],
                              Chunk(@.received + 1)),
                        Chunk(@.received + 1))]
    /\ UNCHANGED <<now, env, cfg, rl, health, grc, moderationModelIndex, passLog>>

\* stream.on('data'): the upstream emits its next chunk
StreamData(c) ==
    /\ req[c].pc = "streaming"
    /\ req[c].received < MaxChunks
    /\ req' = [req EXCEPT ![c] =
                  Write([@ EXCEPT !.lastDataTime = now, !.received = @ + 1],
                        Chunk(@.received + 1))]
    /\ UNCHANGED <<now, env, cfg, rl, health, grc, moderationModelIndex, passLog>>

\* stream.on('end')
StreamEnd(c) ==
    /\ req[c].pc = "streaming"
    /\ req' = [req EXCEPT ![c] = [End(ClearInterval(@)) EXCEPT !.pc = "done"]]
    /\ UNCHANGED <<now, env, cfg, rl, health, grc, moderationModelIndex, passLog>>

\* stream.on('error')
StreamError(c) ==
    /\ req[c].pc = "streaming"
    /\ req' = [req EXCEPT ![c] =
                  SendErrorFrames(ClearInterval(@), FormattedBody(AxiosError(0, FALSE)))]
    /\ UNCHANGED <<now, env, cfg, rl, health, grc, moderationModelIndex, passLog>>

\* A request between two awaits: the code from the arrival of a request, or
\* from a callback, down to the next I/O (axios.post, setTimeout) runs without
\* yielding to the event loop, so no timer callback and no clock step comes
\* between processRequest, the dispatcher, the handler and the first lines
\* of sendToSecondProvider.
Transient(rq) == rq.pc \in {"completions", "handler", "attempt", "models"}
EventLoopFree == \A c \in env.clients : ~Transient(req[c])

TimeoutBody == ErrorBody("service_error", "stream_timeout")

\* a variant of the callback that never times the stream out
WatchdogTickIdle(c) ==
    /\ EventLoopFree
    /\ req[c].checkInterval
    /\ now >= req[c].tickAt
    /\ req' = [req EXCEPT ![c].tickAt = now + WatchdogPeriodMs]
    /\ UNCHANGED <<now, env, cfg, rl, health, grc, moderationModelIndex, passLog>>

\* the callback of checkInterval, run when its period has passed; the
\* interval then waits another period
WatchdogTick(c) ==
    /\ EventLoopFree
    /\ req[c].checkInterval
    /\ now >= req[c].tickAt
    /\ req' = [req EXCEPT ![c] =
                  IF now - @.lastDataTime > cfg.streamTimeout
                  THEN End(Write(Write(ClearInterval(@), ErrorFrame(TimeoutBody)), DoneFrame))
                  ELSE [@ EXCEPT !.tickAt = now + WatchdogPeriodMs]]
    /\ UNCHANGED <<now, env, cfg, rl, health, grc, moderationModelIndex, passLog>>

\* The client of a streaming request in progress closes its connection.
\* Neither processRequest nor the handlers listen for 'close' or 'aborted'
\* on the request, the response or the socket: nothing of the request's
\* processing changes.
ClientDisconnect(c) ==
    /\ EventLoopFree
    /\ req[c].stream
    /\ req[c].pc \in {"mod_wait", "prim_wait", "sleep", "streaming"}
    /\ ~req[c].disconnected
    /\ req' = [req EXCEPT ![c].disconnected = TRUE]
    /\ UNCHANGED <<now, env, cfg, rl, health, grc, moderationModelIndex, passLog>>

\* The connection of an answered request closes once nothing of the request
\* is left running; the client may send its next request.
Close(c) ==
    /\ req[c].pc = "done"
    /\ ~req[c].checkInterval
    /\ req' = [req EXCEPT ![c] = IdleRequest]
    /\ UNCHANGED <<now, env, cfg, rl, health, grc, moderationModelIndex, passLog>>

(***************************************************************************)
(* Timers of the process, and the clock.                                   *)
(***************************************************************************)
\* setInterval(() => this.resetCounters(), 60000)
RLSweep ==
    /\ EventLoopFree
    /\ rl' = ResetCounters(rl, now)
    /\ UNCHANGED <<now, env, cfg, health, grc, moderationModelIndex, req, passLog>>

\* circuitBreakerCheckInterval
BreakerTick ==
    /\ EventLoopFree
    /\ health' = CircuitBreakerTick(health, now)
    /\ UNCHANGED <<now, env, cfg, rl, grc, moderationModelIndex, req, passLog>>

\* The passes that can still share an interval shorter than 60 s with a
\* pass made at time t or later.
RECURSIVE Recent(_, _)
Recent(log, t) ==
    IF log = <<>> THEN <<>>
    ELSE IF t - Head(log) < WindowMs THEN log
    ELSE Recent(Tail(log), t)

\* no callback of a live watchdog interval is overdue
TimersServed == \A c \in env.clients : req[c].checkInterval => now < req[c].tickAt

\* Time passes while the event loop is idle; a timer that is due runs first.
Advance ==
    /\ EventLoopFree
    /\ TimersServed
    /\ now + env.step <= Epoch + env.horizon
    /\ now' = now + env.step
    /\ passLog' = [k \in Paths \X IPs |-> Recent(passLog[k], now')]
    /\ UNCHANGED <<env, cfg, rl, health, grc, moderationModelIndex, req>>

(***************************************************************************)
(* The proxy serving chat-completions requests.                            *)
(***************************************************************************)
Clients == {1}
PipelineInputs == {i \in RequestInputs : i.ip = IpA}

DefaultConfig ==
    [limits |-> [p \in Paths |-> 8], globalIpLimit |-> 3,
     enableRetry |-> FALSE, maxRetryCount |-> 2, maxRetryTime |-> 90000,
     retryDelay |-> 2000, streamTimeout |-> 300000,
     maxErrors |-> 1, errorWindow |-> 60000,
     models |-> <<"m1", "m2">>]

PipelineConfigs ==
    {[DefaultConfig EXCEPT !.enableRetry = b] : b \in BOOLEAN}

Init ==
    /\ now = Epoch
    /\ env = [clients |-> Clients, inputs |-> PipelineInputs,
              step |-> PipelineStep, horizon |-> Horizon,
              cap |-> MaxCount]
    /\ cfg \in PipelineConfigs
    /\ rl = RateLimiterInit
    /\ health = ServiceHealthInit
    /\ grc = GlobalRequestCounterInit
    /\ moderationModelIndex = 0
    /\ req = [c \in Clients |-> IdleRequest]
    /\ passLog = [k \in Paths \X IPs |-> <<>>]

Next ==
    \/ \E c \in env.clients :
          \/ ServerReceive(c)
          \/ Dispatch(c)
          \/ HandlerStart(c)
          \/ ModerationResponse(c)
          \/ Attempt(c)
          \/ PrimaryResponse(c)
          \/ Wake(c)
          \/ StreamData(c)
          \/ StreamEnd(c)
          \/ StreamError(c)
          \/ WatchdogTick(c)
          \/ ClientDisconnect(c)
          \/ Close(c)
    \/ RLSweep
    \/ BreakerTick
    \/ Advance

Spec == Init /\ [][Next]_vars

(***************************************************************************)
(* The rate limiter on its own: checks from any client on any route, the   *)
(* periodic sweep, and the passing of time.                                *)
(***************************************************************************)
\* who calls which route: one client both routes, another the chat route
RLTraffic == ({ChatPath, ImagesPath} \X {IpA}) \cup ({ChatPath} \X {IpB})

RLConfig ==
    [DefaultConfig EXCEPT !.limits = [p \in Paths |-> IF p = ChatPath THEN 4 ELSE 12],
                          !.globalIpLimit = 2]

\* CHAT_RPM=2, the per-IP total out of the way
BurstConfig ==
    [RLConfig EXCEPT !.limits = [p \in Paths |-> IF p = ChatPath THEN 2 ELSE 12],
                     !.globalIpLimit = 300]

RLConfigs == {RLConfig, BurstConfig}

\* rateLimiter.isRateLimited(path, ip), called by any route's middleware
RLCheck(path, ip) ==
    LET r == IsRateLimited(rl, path, ip, now) IN
    /\ CountsBelowCap(rl, path, ip)
    /\ rl' = r.rl
    /\ passLog' = IF r.limited \/ r.threw THEN passLog
                  ELSE [passLog EXCEPT ![path, ip] = Append(@, now)]
    /\ UNCHANGED <<now, env, cfg, health, grc, moderationModelIndex, req>>

InitRL ==
    /\ now = Epoch
    /\ env = [clients |-> {}, inputs |-> {}, step |-> CoarseStep, horizon |-> Horizon,
              cap |-> MaxCount]
    /\ cfg \in RLConfigs
    /\ rl = RateLimiterInit
    /\ health = ServiceHealthInit
    /\ grc = GlobalRequestCounterInit
    /\ moderationModelIndex = 0
    /\ req = [c \in Clients |-> IdleRequest]
    /\ passLog = [k \in Paths \X IPs |-> <<>>]

NextRL ==
    \/ \E k \in RLTraffic : RLCheck(k[1], k[2])
    \/ RLSweep
    \/ Advance

SpecRL == InitRL /\ [][NextRL]_vars

(***************************************************************************)
(* The rate limiter over several minutes: the same checks and sweep under  *)
(* a clock that steps by two minutes.                                      *)
(***************************************************************************)
SweepStep == 4 * CoarseStep
SweepHorizon == (HorizonSteps + 1) * SweepStep

InitSweep ==
    /\ now = Epoch
    /\ env = [clients |-> {}, inputs |-> {}, step |-> SweepStep, horizon |-> SweepHorizon,
              cap |-> MaxCount]
    /\ cfg = RLConfig
    /\ rl = RateLimiterInit
    /\ health = ServiceHealthInit
    /\ grc = GlobalRequestCounterInit
    /\ moderationModelIndex = 0
    /\ req = [c \in Clients |-> IdleRequest]
    /\ passLog = [k \in Paths \X IPs |-> <<>>]

SpecSweep == InitSweep /\ [][NextRL]_vars

(***************************************************************************)
(* The retry loop under a fine clock: one internal (sentinel) request,     *)
(* which goes straight to retryRequest, followed from its arrival to its   *)
(* answer under a range of retry settings.                                 *)
(***************************************************************************)
RetryInputs ==
    {i \in PipelineInputs :
        i.method = "POST" /\ i.sentinel /\ ~i.stream /\ ~i.auth /\ ~i.o3}

RetryConfigs ==
    {[DefaultConfig EXCEPT !.enableRetry = b, !.maxRetryCount = n,
                           !.maxRetryTime = mt, !.retryDelay = d,
                           !.maxErrors = 100] :
        b \in BOOLEAN, n \in {0, 1, 5}, mt \in {20000, 35000}, d \in {5000, 20000}}

InitRetry ==
    /\ now = Epoch
    /\ env = [clients |-> Clients, inputs |-> RetryInputs,
              step |-> RetryStep, horizon |-> RetryHorizon,
              cap |-> MaxCount]
    /\ cfg \in RetryConfigs
    /\ rl = RateLimiterInit
    /\ health = ServiceHealthInit
    /\ grc = GlobalRequestCounterInit
    /\ moderationModelIndex = 0
    /\ req = [c \in Clients |-> IdleRequest]
    /\ passLog = [k \in Paths \X IPs |-> <<>>]

NextRetry ==
    \/ \E c \in env.clients :
          \/ ServerReceive(c)
          \/ Dispatch(c)
          \/ HandlerStart(c)
          \/ Attempt(c)
          \/ PrimaryResponse(c)
          \/ Wake(c)
    \/ Advance

SpecRetry == InitRetry /\ [][NextRetry]_vars

(***************************************************************************)
(* The primary breaker under a 20 s clock: unary requests, moderated or    *)
(* internal, one after the other, with the breaker tripping on the second  *)
(* failure and the rate limiter out of the way.                            *)
(***************************************************************************)
BreakerStep == 20 * 1000
BreakerHorizon == 2 * HorizonSteps * BreakerStep

BreakerInputs ==
    {i \in PipelineInputs :
        /\ i.method = "POST" /\ ~i.stream /\ ~i.o3 /\ (i.sentinel # i.auth)
        /\ ~i.whitelisted}

BreakerConfigs ==
    {[DefaultConfig EXCEPT !.limits = [p \in Paths |-> 40], !.globalIpLimit = 300,
                           !.errorWindow = w] : w \in {30000, 60000}}

InitCB ==
    /\ now = Epoch
    /\ env = [clients |-> Clients, inputs |-> BreakerInputs,
              step |-> BreakerStep, horizon |-> BreakerHorizon,
              cap |-> MaxCount]
    /\ cfg \in BreakerConfigs
    /\ rl = RateLimiterInit
    /\ health = ServiceHealthInit
    /\ grc = GlobalRequestCounterInit
    /\ moderationModelIndex = 0
    /\ req = [c \in Clients |-> IdleRequest]
    /\ passLog = [k \in Paths \X IPs |-> <<>>]

NextCB ==
    \/ \E c \in env.clients :
          \/ ServerReceive(c)
          \/ Dispatch(c)
          \/ HandlerStart(c)
          \/ ModerationResponse(c)
          \/ Attempt(c)
          \/ PrimaryResponse(c)
          \/ Close(c)
    \/ BreakerTick
    \/ Advance

SpecCB == InitCB /\ [][NextCB]_vars

(***************************************************************************)
(* The streaming relay under a clock that steps by the watchdog's period:  *)
(* streaming requests, moderated or internal, with a stream time-out of    *)
(* two periods.                                                            *)
(***************************************************************************)
StreamStep == WatchdogPeriodMs
StreamHorizon == (HorizonSteps + 2) * StreamStep

StreamInputs ==
    {i \in PipelineInputs :
        i.method = "POST" /\ i.stream /\ ~i.o3 /\ (i.sentinel # i.auth)}

StreamConfig ==
    [DefaultConfig EXCEPT !.limits = [p \in Paths |-> 40], !.globalIpLimit = 300,
                          !.maxErrors = 100, !.streamTimeout = 2 * WatchdogPeriodMs]

InitStream ==
    /\ now = Epoch
    /\ env = [clients |-> Clients, inputs |-> StreamInputs,
              step |-> StreamStep, horizon |-> StreamHorizon,
              cap |-> MaxCount]
    /\ cfg = StreamConfig
    /\ rl = RateLimiterInit
    /\ health = ServiceHealthInit
    /\ grc = GlobalRequestCounterInit
    /\ moderationModelIndex = 0
    /\ req = [c \in Clients |-> IdleRequest]
    /\ passLog = [k \in Paths \X IPs |-> <<>>]

NextStream ==
    \/ \E c \in env.clients :
          \/ ServerReceive(c)
          \/ Dispatch(c)
          \/ HandlerStart(c)
          \/ ModerationResponse(c)
          \/ Attempt(c)
          \/ PrimaryResponse(c)
          \/ StreamData(c)
          \/ StreamEnd(c)
          \/ StreamError(c)
          \/ WatchdogTick(c)
          \/ Close(c)
    \/ Advance

SpecStream == InitStream /\ [][NextStream]_vars

(***************************************************************************)
(* The primary breaker with a threshold of two failures and an error       *)
(* window of 30 s, under the 20 s clock: failures can follow one another   *)
(* at gaps shorter than the window over a span longer than the window.     *)
(***************************************************************************)
WindowConfig ==
    [DefaultConfig EXCEPT !.limits = [p \in Paths |-> 40], !.globalIpLimit = 300,
                          !.maxErrors = 2, !.errorWindow = 30000]

InitWindow ==
    /\ now = Epoch
    /\ env = [clients |-> Clients, inputs |-> BreakerInputs,
              step |-> BreakerStep, horizon |-> BreakerHorizon,
              cap |-> MaxCount]
    /\ cfg = WindowConfig
    /\ rl = RateLimiterInit
    /\ health = ServiceHealthInit
    /\ grc = GlobalRequestCounterInit
    /\ moderationModelIndex = 0
    /\ req = [c \in Clients |-> IdleRequest]
    /\ passLog = [k \in Paths \X IPs |-> <<>>]

SpecWindow == InitWindow /\ [][NextCB]_vars

(***************************************************************************)
(* Two clients whose moderated requests overlap, under a clock that steps  *)
(* past the rate limiter's window, with two or three moderation models     *)
(* configured.  The requests name an o3 model with temperature 0.7, which  *)
(* sendToSecondProvider refuses before it calls the primary provider.      *)
(***************************************************************************)
TwoClients == {1, 2}
SelectStep == 61 * 1000
SelectHorizon == HorizonSteps * SelectStep

SelectInputs ==
    {i \in PipelineInputs :
        /\ i.method = "POST" /\ i.auth /\ ~i.sentinel /\ ~i.stream
        /\ i.o3 /\ i.temperature = 7
        /\ ~i.whitelisted}

SelectConfigs ==
    {[DefaultConfig EXCEPT !.limits = [p \in Paths |-> 40], !.globalIpLimit = 300,
                           !.maxErrors = 100, !.models = ms] :
        ms \in {<<"m1", "m2">>, <<"m1", "m2", "m3">>}}

InitSelect ==
    /\ now = Epoch
    /\ env = [clients |-> TwoClients, inputs |-> SelectInputs,
              step |-> SelectStep, horizon |-> SelectHorizon,
              cap |-> MaxCount]
    /\ cfg \in SelectConfigs
    /\ rl = RateLimiterInit
    /\ health = ServiceHealthInit
    /\ grc = GlobalRequestCounterInit
    /\ moderationModelIndex = 0
    /\ req = [c \in TwoClients |-> IdleRequest]
    /\ passLog = [k \in Paths \X IPs |-> <<>>]

NextSelect ==
    \/ \E c \in env.clients :
          \/ ServerReceive(c)
          \/ Dispatch(c)
          \/ HandlerStart(c)
          \/ ModerationResponse(c)
          \/ Attempt(c)
          \/ Close(c)
    \/ Advance

SpecSelect == InitSelect /\ [][NextSelect]_vars

(***************************************************************************)
(* The proxy with no moderation model configured: unary and streaming      *)
(* requests, moderated or internal.  No moderation call is ever made, so   *)
(* no reply of the moderation provider is ever handled.                    *)
(***************************************************************************)
NoModelsInputs == BreakerInputs \cup StreamInputs

NoModelsConfig == [DefaultConfig EXCEPT !.models = <<>>]

InitNoModels ==
    /\ now = Epoch
    /\ env = [clients |-> Clients, inputs |-> NoModelsInputs,
              step |-> PipelineStep, horizon |-> Horizon,
              cap |-> MaxCount]
    /\ cfg = NoModelsConfig
    /\ rl = RateLimiterInit
    /\ health = ServiceHealthInit
    /\ grc = GlobalRequestCounterInit
    /\ moderationModelIndex = 0
    /\ req = [c \in Clients |-> IdleRequest]
    /\ passLog = [k \in Paths \X IPs |-> <<>>]

NextNoModels ==
    \/ \E c \in env.clients :
          \/ ServerReceive(c)
          \/ Dispatch(c)
          \/ HandlerStart(c)
          \/ Attempt(c)
          \/ PrimaryResponse(c)
          \/ StreamData(c)
          \/ StreamEnd(c)
          \/ StreamError(c)
          \/ WatchdogTick(c)
          \/ Close(c)
    \/ BreakerTick
    \/ Advance

SpecNoModels == InitNoModels /\ [][NextNoModels]_vars

(***************************************************************************)
(* One request followed from its arrival to the end of its response, with  *)
(* retries on and a stream time-out of two watchdog periods.  The clock    *)
(* runs freely up to the horizon and then only as long as a timer of the   *)
(* request (backoff sleep, watchdog interval) is pending.  Every step of   *)
(* the proxy is eventually taken, every provider call eventually returns   *)
(* or fails and every timer eventually fires; the client need not send a   *)
(* request and the upstream stream need not emit anything.                 *)
(***************************************************************************)
LiveConfig ==
    [StreamConfig EXCEPT !.enableRetry = TRUE, !.maxRetryCount = 2,
                         !.maxRetryTime = 35000, !.retryDelay = 5000]

\* unary and streaming requests, moderated or internal
LiveInputs == BreakerInputs \cup StreamInputs

\* the longest a watchdog interval can stay alive past the horizon: each
\* chunk restarts the time-out, which is noticed one period late
LiveGrace == (MaxChunks + 2) * (LiveConfig.streamTimeout + WatchdogPeriodMs)

InitLive ==
    /\ now = Epoch
    /\ env = [clients |-> Clients, inputs |-> LiveInputs,
              step |-> StreamStep, horizon |-> StreamStep,
              cap |-> MaxCount]
    /\ cfg = LiveConfig
    /\ rl = RateLimiterInit
    /\ health = ServiceHealthInit
    /\ grc = GlobalRequestCounterInit
    /\ moderationModelIndex = 0
    /\ req = [c \in Clients |-> IdleRequest]
    /\ passLog = [k \in Paths \X IPs |-> <<>>]

\* a setTimeout or setInterval of a request is pending
TimerPending == \E c \in env.clients : req[c].pc = "sleep" \/ req[c].checkInterval

\* the clock of these runs
AdvanceLive ==
    /\ EventLoopFree
    /\ TimersServed
    /\ \/ now + env.step <= Epoch + env.horizon
       \/ TimerPending /\ now + env.step <= Epoch + env.horizon + LiveGrace
    /\ now' = now + env.step
    /\ passLog' = [k \in Paths \X IPs |-> Recent(passLog[k], now')]
    /\ UNCHANGED <<env, cfg, rl, health, grc, moderationModelIndex, req>>

NextLive ==
    \/ \E c \in env.clients :
          \/ ServerReceive(c)
          \/ Dispatch(c)
          \/ HandlerStart(c)
          \/ ModerationResponse(c)
          \/ Attempt(c)
          \/ PrimaryResponse(c)
          \/ Wake(c)
          \/ StreamData(c)
          \/ StreamEnd(c)
          \/ StreamError(c)
          \/ WatchdogTick(c)
    \/ AdvanceLive

FairLive ==
    /\ \A c \in Clients :
          /\ WF_vars(Dispatch(c))
          /\ WF_vars(HandlerStart(c))
          /\ WF_vars(ModerationResponse(c))
          /\ WF_vars(Attempt(c))
          /\ WF_vars(PrimaryResponse(c))
          /\ WF_vars(Wake(c))
          /\ WF_vars(WatchdogTick(c))
    /\ WF_vars(AdvanceLive)

SpecLive == InitLive /\ [][NextLive]_vars /\ FairLive

(***************************************************************************)
(* The rate limiter on its own under the clock that steps by 61 s.         *)
(***************************************************************************)
InitCold ==
    /\ now = Epoch
    /\ env = [clients |-> {}, inputs |-> {}, step |-> SelectStep, horizon |-> SelectHorizon,
              cap |-> MaxCount]
    /\ cfg \in RLConfigs
    /\ rl = RateLimiterInit
    /\ health = ServiceHealthInit
    /\ grc = GlobalRequestCounterInit
    /\ moderationModelIndex = 0
    /\ req = [c \in Clients |-> IdleRequest]
    /\ passLog = [k \in Paths \X IPs |-> <<>>]

SpecCold == InitCold /\ [][NextRL]_vars

(***************************************************************************)
(* Two client IPs on the chat route, with CHAT_RPM = 4 (one request per IP *)
(* and minute on the route) and counters that can go beyond the route's    *)
(* limit.                                                                  *)
(***************************************************************************)
CrowdConfig ==
    [DefaultConfig EXCEPT !.limits = [p \in Paths |-> IF p = ChatPath THEN 4 ELSE 12],
                          !.globalIpLimit = 300]
\* CHAT_RPM = 12 (three requests per IP and minute on the route) with
\* GLOBAL_IP_RPM = 2
QuotaConfig ==
    [DefaultConfig EXCEPT !.limits = [p \in Paths |-> 12], !.globalIpLimit = 2]
CrowdConfigs == {CrowdConfig, QuotaConfig}

InitCrowd ==
    /\ now = Epoch
    /\ env = [clients |-> {}, inputs |-> {}, step |-> PipelineStep, horizon |-> Horizon,
              cap |-> MaxCount + 2]
    /\ cfg \in CrowdConfigs
    /\ rl = RateLimiterInit
    /\ health = ServiceHealthInit
    /\ grc = GlobalRequestCounterInit
    /\ moderationModelIndex = 0
    /\ req = [c \in Clients |-> IdleRequest]
    /\ passLog = [k \in Paths \X IPs |-> <<>>]

NextCrowd ==
    \/ \E k \in RLTraffic : RLCheck(k[1], k[2])
    \/ RLSweep
    \/ Advance

SpecCrowd == InitCrowd /\ [][NextCrowd]_vars

(***************************************************************************)
(* Two header values on the chat route, one of which is the key under      *)
(* which the limiter keeps the other's per-IP total.                       *)
(***************************************************************************)
AliasTraffic == {ChatPath} \X {IpA, IpG}

\* a check of rateLimiter.isRateLimited; the log of passes of one header
\* value is kept within the cap
AliasCheck(path, ip) ==
    /\ Len(passLog[path, ip]) < env.cap
    /\ RLCheck(path, ip)

InitAlias ==
    /\ now = Epoch
    /\ env = [clients |-> {}, inputs |-> {}, step |-> PipelineStep, horizon |-> Horizon,
              cap |-> MaxCount]
    /\ cfg = QuotaConfig
    /\ rl = RateLimiterInit
    /\ health = ServiceHealthInit
    /\ grc = GlobalRequestCounterInit
    /\ moderationModelIndex = 0
    /\ req = [c \in Clients |-> IdleRequest]
    /\ passLog = [k \in Paths \X IPs |-> <<>>]

NextAlias ==
    \/ \E k \in AliasTraffic : AliasCheck(k[1], k[2])
    \/ RLSweep
    \/ Advance

SpecAlias == InitAlias /\ [][NextAlias]_vars

(***************************************************************************)
(* src/api/models.js behind src/server.js: GET /v1/models is relayed to    *)
(* the primary provider with the provider's key.                           *)
(***************************************************************************)
\* what the server and models.js read of a request for /v1/models
ModelsInputs ==
    [method : Methods, auth : BOOLEAN, sentinel : {FALSE}, stream : {FALSE},
     o3 : {FALSE}, temperature : {7}, ip : {IpA}, whitelisted : {FALSE}]

\* processRequest for the path /v1/models: the rate limiter is consulted and
\* the request goes to models.js
ModelsReceive(c) ==
    /\ req[c].pc = "idle"
    /\ \E inp \in env.inputs :
         LET fresh == [IdleRequest EXCEPT
                          !.method = inp.method, !.auth = inp.auth,
                          !.ip = inp.ip, !.path = ModelsPath]
             m == RateLimitMiddleware(fresh, rl, ModelsPath, now)
         IN  /\ CountsBelowCap(rl, ModelsPath, inp.ip)
             /\ rl' = m.rl
             /\ req' = [req EXCEPT ![c] =
                          IF m.threw THEN m.rq
                          ELSE IF m.limited
                          THEN [m.rq EXCEPT !.limitedBy = "server"]
                          ELSE [m.rq EXCEPT !.pc = "models"]]
    /\ UNCHANGED <<now, env, cfg, health, grc, moderationModelIndex, passLog>>

\* module.exports of models.js up to the axios.get it awaits: the method
\* checks, a second consultation of the rate limiter, and the provider call
ModelsHandler(c) ==
    LET rq == req[c]
        m == RateLimitMiddleware(rq, rl, ModelsPath, now)
    IN
    /\ rq.pc = "models"
    /\ IF rq.method = "OPTIONS" THEN
            /\ req' = [req EXCEPT ![c] = [End(rq) EXCEPT !.pc = "done"]]
            /\ UNCHANGED rl
       ELSE IF rq.method # "GET" THEN
            /\ req' = [req EXCEPT ![c] =
                  SendJson(rq, 405, [ErrorBody("invalid_request_error", "none")
                                        EXCEPT !.ncode = 405])]
            /\ UNCHANGED rl
       ELSE
            /\ CountsBelowCap(rl, ModelsPath, rq.ip)
            /\ rl' = m.rl
            /\ req' = [req EXCEPT ![c] =
                  IF m.threw THEN m.rq
                  ELSE IF m.limited THEN [m.rq EXCEPT !.limitedBy = "handler"]
                  ELSE [m.rq EXCEPT !.pc = "models_wait", !.primCalls = @ + 1]]
    /\ UNCHANGED <<now, env, cfg, health, grc, moderationModelIndex, passLog>>

\* the reply of the provider to axios.get: relayed, or formatted by handleError
ModelsResponse(c) ==
    LET rq == req[c] IN
    /\ rq.pc = "models_wait"
    /\ \E o \in PrimaryOutcomes :
         req' = [req EXCEPT ![c] =
               IF o.status = 200 THEN SendJson(rq, 200, OkBody)
               ELSE SendJson(rq, StatusOf(FormattedBody(AxiosError(o.status, o.json))),
                             FormattedBody(AxiosError(o.status, o.json)))]
    /\ UNCHANGED <<now, env, cfg, rl, health, grc, moderationModelIndex, passLog>>

InitModels ==
    /\ now = Epoch
    /\ env = [clients |-> Clients, inputs |-> ModelsInputs,
              step |-> CoarseStep, horizon |-> Horizon,
              cap |-> MaxCount]
    /\ cfg = DefaultConfig
    /\ rl = RateLimiterInit
    /\ health = ServiceHealthInit
    /\ grc = GlobalRequestCounterInit
    /\ moderationModelIndex = 0
    /\ req = [c \in Clients |-> IdleRequest]
    /\ passLog = [k \in Paths \X IPs |-> <<>>]

NextModels ==
    \/ \E c \in env.clients :
          \/ ModelsReceive(c)
          \/ ModelsHandler(c)
          \/ ModelsResponse(c)
          \/ Close(c)
    \/ RLSweep
    \/ Advance

SpecModels == InitModels /\ [][NextModels]_vars

(***************************************************************************)
(* The sampler of performModeration: extractRandomSegments, computed on    *)
(* the lengths of the messages' contents.  A message of the result is the  *)
(* caller's own object ("same"), a new object with the whole content       *)
(* ("copy"), or a new object with part of the content and a marker ("cut").*)
(***************************************************************************)
MaxMsgs == 3

Budget == 30000
SystemMarkLen == 19
UserMarkLen == 17
JoinMarkLen == 18
CutMarkLen == 8
WarningLen == 21

Roles == {"user", "system"}
SamplerLengths == {0, 150, 14900, 15000, 16000, 31000}

MessageLists ==
    UNION {[1..n -> [role : Roles, len : SamplerLengths, how : {"same"}]] : n \in 0..MaxMsgs}

\* calculateTotalLength(messages)
RECURSIVE CalculateTotalLength(_)
CalculateTotalLength(msgs) ==
    IF msgs = <<>> THEN 0 ELSE Head(msgs).len + CalculateTotalLength(Tail(msgs))

\* content.substring(0, n).length for a content of length len
Substring0(len, n) == Min2(len, Max2(n, 0))

\* Math.floor(maxLength * 0.5)
NonUserMaxLength == Budget \div 2

\* a variant of the truncation that keeps the whole content
NonUserWhole(len, availableLength) == len

\* truncatedContent.length of a non-user message
NonUserTruncated(len, availableLength) ==
    Substring0(len, (availableLength * 8) \div 10) + SystemMarkLen

\* the loop over nonUserMessages: the messages it pushes
RECURSIVE NonUserScan(_, _)
NonUserScan(list, out) ==
    IF list = <<>> THEN out
    ELSE LET msg == Head(list)
             currentLength == CalculateTotalLength(out)
             availableLength == NonUserMaxLength - currentLength
         IN  IF currentLength + msg.len <= NonUserMaxLength
             THEN NonUserScan(Tail(list), Append(out, [msg EXCEPT !.how = "copy"]))
             ELSE IF availableLength > 200
             THEN Append(out, [role |-> msg.role,
                               len |-> NonUserTruncated(msg.len, availableLength),
                               how |-> "cut"])
             ELSE out

\* finalContent.length of the only user message when it does not fit
SingleUserCut(len, remainingLength) ==
    LET segmentLength == remainingLength \div 3
        safeSegmentLength == Min2(segmentLength, (remainingLength * 2) \div 7)
        extracted == 3 * Substring0(len, safeSegmentLength) + 2 * JoinMarkLen
    IN  IF extracted > remainingLength
        THEN Substring0(extracted, remainingLength - 30) + CutMarkLen
        ELSE extracted

\* messageLengths.sort((a, b) => a.length - b.length), a stable sort
RECURSIVE InsertByLength(_, _)
InsertByLength(sorted, m) ==
    IF sorted = <<>> THEN <<m>>
    ELSE IF Head(sorted).len <= m.len
    THEN <<Head(sorted)>> \o InsertByLength(Tail(sorted), m)
    ELSE <<m>> \o sorted

RECURSIVE SortByLength(_)
SortByLength(list) ==
    IF list = <<>> THEN <<>>
    ELSE InsertByLength(SortByLength(SubSeq(list, 1, Len(list) - 1)), list[Len(list)])

\* the first loop over the sorted user messages: those added whole, and
\* those left over
RECURSIVE FitWhole(_, _, _, _)
FitWhole(list, remainingLength, taken, left) ==
    IF list = <<>> THEN [taken |-> taken, left |-> left]
    ELSE LET item == Head(list)
             usedLength == CalculateTotalLength(taken)
             fits == usedLength + item.len <= remainingLength
             taken1 == IF fits THEN Append(taken, item) ELSE taken
             left1 == IF fits THEN left ELSE Append(left, item)
         IN  IF CalculateTotalLength(taken1) >= remainingLength
             THEN [taken |-> taken1, left |-> left1 \o Tail(list)]
             ELSE FitWhole(Tail(list), remainingLength, taken1, left1)

\* the second loop, over the shuffled left-over messages: the user messages
\* of the result
RECURSIVE CutLong(_, _, _)
CutLong(list, remainingLength, taken) ==
    IF list = <<>> THEN taken
    ELSE LET item == Head(list)
             availableLength == remainingLength - CalculateTotalLength(taken)
             truncateLength == Min2(availableLength - 50, item.len \div 2)
             taken1 == Append(taken, [role |-> "user",
                                      len |-> Substring0(item.len, truncateLength) + UserMarkLen,
                                      how |-> "cut"])
         IN  IF availableLength < 200 THEN taken
             ELSE IF truncateLength > 100
             THEN IF CalculateTotalLength(taken1) >= remainingLength
                  THEN taken1
                  ELSE CutLong(Tail(list), remainingLength, taken1)
             ELSE CutLong(Tail(list), remainingLength, taken)

\* the orders remainingMessages.sort(() => Math.random() - 0.5) can leave
Shuffles(n) == {p \in [1..n -> 1..n] : \A i, j \in 1..n : p[i] = p[j] => i = j}
Shuffled(list, p) ==
    LET q == SelectSeq(p, LAMBDA i : i <= Len(list))
    IN  [i \in 1..Len(list) |-> list[q[i]]]

\* extractedMessages with its last user message spliced out
RECURSIVE DropLastUser(_)
DropLastUser(list) ==
    IF list = <<>> THEN <<>>
    ELSE IF list[Len(list)].role = "user" THEN SubSeq(list, 1, Len(list) - 1)
    ELSE Append(DropLastUser(SubSeq(list, 1, Len(list) - 1)), list[Len(list)])

\* extractRandomSegments(messages) with the default maxLength, the shuffle
\* coming out as p
ExtractRandomSegments(messages, p) ==
    LET totalLength == CalculateTotalLength(messages)
        userMessages == SelectSeq(messages, LAMBDA m : m.role = "user")
        nonUserMessages == SelectSeq(messages, LAMBDA m : m.role # "user")
        nonUser == NonUserScan(nonUserMessages, <<>>)
        currentLength == CalculateTotalLength(nonUser)
        remainingLength == Budget - currentLength
        msg == userMessages[1]
        whole == FitWhole(SortByLength(userMessages), remainingLength, <<>>, <<>>)
        users == IF Len(userMessages) = 1
                 THEN IF msg.len <= remainingLength THEN <<msg>>
                      ELSE <<[role |-> "user",
                              len |-> SingleUserCut(msg.len, remainingLength),
                              how |-> "cut"]>>
                 ELSE IF CalculateTotalLength(whole.taken) < remainingLength
                 THEN CutLong(Shuffled(whole.left, p), remainingLength, whole.taken)
                 ELSE whole.taken
        extractedMessages == nonUser \o users
        extractedLength == CalculateTotalLength(extractedMessages)
        spliced == DropLastUser(extractedMessages)
    IN  IF totalLength <= Budget
        THEN [messages |-> messages, isExtracted |-> FALSE,
              originalLength |-> totalLength, extractedLength |-> totalLength]
        ELSE IF userMessages = <<>>
        THEN [messages |-> nonUser, isExtracted |-> TRUE,
              originalLength |-> totalLength, extractedLength |-> currentLength]
        ELSE IF extractedLength > Budget /\ CalculateTotalLength(spliced) > Budget
        THEN [messages |-> <<[role |-> "system", len |-> WarningLen, how |-> "cut"]>>,
              isExtracted |-> TRUE, originalLength |-> totalLength, extractedLength |-> 0]
        ELSE [messages |-> IF extractedLength > Budget THEN spliced ELSE extractedMessages,
              isExtracted |-> TRUE,
              originalLength |-> totalLength, extractedLength |-> extractedLength]

\* performModeration hands the client's messages to the sampler
Sample(c) ==
    /\ req[c].pc = "sampling"
    /\ \E p \in Shuffles(Len(req[c].messages)) :
          req' = [req EXCEPT ![c].sampled = ExtractRandomSegments(req[c].messages, p),
                             ![c].pc = "sampled"]
    /\ UNCHANGED <<now, env, cfg, rl, health, grc, moderationModelIndex, passLog>>

InitSampler ==
    /\ now = Epoch
    /\ env = [clients |-> Clients, inputs |-> {}, step |-> CoarseStep, horizon |-> Horizon,
              cap |-> MaxCount]
    /\ cfg = DefaultConfig
    /\ rl = RateLimiterInit
    /\ health = ServiceHealthInit
    /\ grc = GlobalRequestCounterInit
    /\ moderationModelIndex = 0
    /\ \E m \in MessageLists :
          req = [c \in Clients |-> [IdleRequest EXCEPT !.pc = "sampling", !.messages = m]]
    /\ passLog = [k \in Paths \X IPs |-> <<>>]

NextSampler == \E c \in env.clients : Sample(c)

SpecSampler == InitSampler /\ [][NextSampler]_vars

(***************************************************************************)
(* Properties.                                                             *)
(***************************************************************************)
\* the request has passed the server's and the dispatcher's early exits
\* (405, 429) and has been answered
AnsweredPastRateLimit(rq) ==
    rq.pc = "done" /\ rq.method = "POST" /\ rq.status # 429

\* C1: for a request without the sentinel, the primary provider is called
\* only after a moderation verdict whose isViolation is not true has been
\* received; on a verdict with isViolation true the primary provider is
\* never called, a unary request is answered 403 with code content_violation
\* and a streaming request gets an SSE error frame followed by data: [DONE].
C1_ModerationGatesPrimary ==
    \A c \in Clients :
        LET rq == req[c] IN
        (rq.pc # "idle" /\ ~rq.sentinel) =>
            /\ rq.sendCalls + rq.primCalls > 0 =>
                   rq.verdict.got /\ rq.verdict.isViolation # "true"
            /\ (rq.verdict.got /\ rq.verdict.isViolation = "true") =>
                   /\ rq.primCalls = 0
                   /\ rq.pc = "done" /\ rq.ended
                   /\ IF rq.stream
                      THEN /\ Len(rq.frames) = 2
                           /\ rq.frames[1].kind = "error"
                           /\ rq.frames[1].body.code = "content_violation"
                           /\ rq.frames[2] = DoneFrame
                      ELSE /\ rq.status = 403
                           /\ rq.body.code = "content_violation"

\* C1 witness: a streaming request has been rejected on a violation verdict
C1_Witness ==
    \E c \in Clients :
        /\ ~req[c].sentinel /\ req[c].stream
        /\ req[c].verdict.isViolation = "true"
        /\ req[c].ended /\ Len(req[c].frames) = 2

\* C2 (as stated): a verdict with riskLevel 5 counts as a violation whatever
\* its isViolation says: the request is rejected and never forwarded.
C2_RiskLevelFiveRejected ==
    \A c \in Clients :
        (req[c].verdict.got /\ req[c].verdict.riskLevel = 5) =>
            req[c].sendCalls = 0 /\ req[c].primCalls = 0

\* C3 (as stated): a request whose Authorization header is missing or wrong
\* never causes an HTTP call to the moderation or the primary provider,
\* whatever its body, and unless it was answered 405 or 429 it is answered
\* 401 authentication_error / invalid_auth_key.
C3_UnauthenticatedNeverReachesProvider ==
    \A c \in Clients :
        LET rq == req[c] IN
        (rq.pc # "idle" /\ ~rq.auth) =>
            /\ rq.modCalls = 0 /\ rq.primCalls = 0
            /\ AnsweredPastRateLimit(rq) =>
                   /\ rq.status = 401
                   /\ rq.body.type = "authentication_error"
                   /\ rq.body.code = "invalid_auth_key"

\* C4: a request with the sentinel in a system message causes no call to the
\* moderation provider and is handed to the primary provider's forwarder; the
\* moderation request the proxy builds carries the sentinel, so routed back
\* to the proxy it causes no further moderation.
C4_SentinelSkipsModeration ==
    \A c \in Clients :
        LET rq == req[c] IN
        /\ (rq.pc # "idle" /\ rq.sentinel) =>
              /\ rq.modCalls = 0
              /\ ~rq.verdict.got
              /\ AnsweredPastRateLimit(rq) => rq.sendCalls >= 1
        /\ (rq.pc # "idle" /\ rq.method = ModerationRequest.method
                           /\ rq.sentinel = ModerationRequest.sentinel) =>
              rq.modCalls = 0

\* C4 witness: a sentinel request has reached the primary provider
C4_Witness ==
    \E c \in Clients :
        req[c].sentinel /\ req[c].primCalls >= 1 /\ req[c].modCalls = 0

\* the passes of the last 60 s on a route, and of an IP on all routes
RECURSIVE SumLen(_, _)
SumLen(log, keys) ==
    IF keys = {} THEN 0
    ELSE LET k == CHOOSE x \in keys : TRUE
         IN  Len(log[k]) + SumLen(log, keys \ {k})
RouteRecent(p) == SumLen(passLog, {p} \X IPs)
IpRecent(ip) == SumLen(passLog, Paths \X {ip})

C6_OneRateLimitCheck ==
    \A c \in Clients :
        req[c].pc # "idle" => req[c].rlChecks = 1

\* C7: a request found over a limit is answered 429 with type
\* rate_limit_error and code rate_limit_exceeded, carries the X-RateLimit-*
\* headers, and causes no provider call.
C7_LimitedRequestRejected ==
    \A c \in Clients :
        LET rq == req[c] IN
        rq.limitedBy # "none" =>
            /\ rq.pc = "done" /\ rq.ended
            /\ rq.status = 429
            /\ rq.body.type = "rate_limit_error"
            /\ rq.body.code = "rate_limit_exceeded"
            /\ rq.rateHeaders.limit = PathLimit(ChatPath)
            /\ rq.rateHeaders.remaining >= 0
            /\ rq.rateHeaders.reset > 0
            /\ rq.modCalls = 0 /\ rq.sendCalls = 0 /\ rq.primCalls = 0

\* C7 witness: the dispatcher's check has turned a request away
C7_Witness ==
    \E c \in Clients : req[c].limitedBy = "dispatcher" /\ req[c].status = 429

\* C8 (as stated): with retries enabled, an attempt that fails with status
\* 400, 401, 403, 404 or 422, or with an error marked nonRetryable, is the
\* last: the forwarder is invoked exactly once and no backoff sleep happens.
C8_NonRetryableNotRetried ==
    \A c \in Clients :
        LET rq == req[c] IN
        (/\ cfg.enableRetry
         /\ \/ rq.lastError.nonRetryable
            \/ rq.lastError.status \in NonRetryableStatuses) =>
            rq.sendCalls = 1 /\ rq.sleeps = 0 /\ rq.pc # "sleep"

CeilDiv(a, b) == (a + b - 1) \div b

\* C9 (as stated): the forwarder is attempted at most
\* min(maxRetryCount, ceil(maxRetryTime / retryDelay)) times for a request,
\* and exactly once when retries are disabled.
C9_AttemptBound ==
    \A c \in Clients :
        LET rq == req[c] IN
        IF cfg.enableRetry
        THEN rq.sendCalls <= Min2(cfg.maxRetryCount,
                                  CeilDiv(cfg.maxRetryTime, cfg.retryDelay))
        ELSE /\ rq.sendCalls <= 1
             /\ AnsweredPastRateLimit(rq) => rq.sendCalls = 1

\* C9 (amended): the first attempt is always made, and the sleep between
\* attempts is capped at 10 s, so the attempts are at most
\* max(1, min(maxRetryCount, ceil(maxRetryTime / min(retryDelay, 10000))));
\* exactly one attempt is made when retries are disabled.
C9_AttemptBoundCapped ==
    \A c \in Clients :
        LET rq == req[c] IN
        IF cfg.enableRetry
        THEN rq.sendCalls <=
                Max2(1, Min2(cfg.maxRetryCount,
                             CeilDiv(cfg.maxRetryTime,
                                     Min2(cfg.retryDelay, MaxBackoffMs))))
        ELSE /\ rq.sendCalls <= 1
             /\ AnsweredPastRateLimit(rq) => rq.sendCalls = 1

\* C9 witness: with a retry delay above the cap, the retry loop has made its
\* last attempt after the time limit ended it
C9_Witness ==
    \E c \in Clients :
        /\ cfg.enableRetry /\ cfg.retryDelay > MaxBackoffMs
        /\ req[c].sendCalls = 3 /\ req[c].pc = "done"

\* the forwarder's answer when it found the primary provider's breaker open
BreakerAnswer(rq) ==
    IF rq.stream
    THEN rq.frames # <<>> /\ rq.frames[1].body = FormattedBody(BreakerOpenError)
    ELSE rq.body = FormattedBody(BreakerOpenError)

\* C10 (as stated): a request for an o3 model with a temperature other than
\* 0 is answered 400 invalid_temperature without any retry, whatever
\* ENABLE_RETRY is: the forwarder is invoked once, no backoff sleep happens
\* and no HTTP call is made to the primary provider.
C10_TemperatureNotRetried ==
    \A c \in Clients :
        LET rq == req[c] IN
        (rq.pc # "idle" /\ rq.o3 /\ rq.temperature \notin {Undef, 0}) =>
            /\ rq.sendCalls <= 1
            /\ rq.sleeps = 0
            /\ rq.primCalls = 0
            /\ (rq.pc = "done" /\ rq.sendCalls = 1 /\ ~BreakerAnswer(rq)) =>
                   /\ IF rq.stream
                      THEN rq.frames[1].body.provider_code = "invalid_temperature"
                      ELSE /\ rq.status = 400
                           /\ rq.body.provider_code = "invalid_temperature"

\* C11: a trip sets the reset time 60 s ahead; while the hold lasts no step
\* (request, recorded failure, background tick, clock step) clears the trip
\* or brings the reset time forward, and a request whose breaker check runs
\* during the hold makes no provider call; a request whose breaker check
\* runs after the reset time has passed goes on to its provider call.
C11_TripHoldsSixtySeconds ==
    [][/\ (~health.circuitBreakerTripped /\ health'.circuitBreakerTripped)
            => health'.circuitBreakerResetTime = now + 60000
       /\ Holding(health, now')
            => /\ health'.circuitBreakerTripped
               /\ health'.circuitBreakerResetTime >= health.circuitBreakerResetTime
       /\ \A c \in Clients :
            /\ req[c].pc = "attempt"
                 => (req'[c].pc = "prim_wait" <=> ~Holding(health, now))
            /\ (req[c].pc = "handler" /\ ~req[c].skipModeration)
                 => (req'[c].pc = "mod_wait" <=> ~Holding(health, now))]_vars

\* the breaker has tripped, its hold has run out, and a request has gone on
\* to the primary provider
C11_Witness ==
    \E c \in Clients :
        /\ req[c].pc = "prim_wait"
        /\ health.circuitBreakerResetTime > 0
        /\ now > health.circuitBreakerResetTime
        /\ ~health.circuitBreakerTripped

\* C12: a request that reaches its handler while the primary breaker is
\* tripped is answered with code service_unavailable and circuit_breaker =
\* true (status 503 in unary mode, an SSE error frame in stream mode), and
\* no call is made to the moderation provider or to the primary provider.
C12_TrippedBreakerAnswer ==
    \A c \in Clients :
        LET rq == req[c] IN
        (rq.openAtStart /\ rq.pc = "done")
          => /\ rq.modCalls = 0
             /\ rq.primCalls = 0
             /\ IF rq.stream
                THEN \E i \in DOMAIN rq.frames :
                        /\ rq.frames[i].kind = "error"
                        /\ rq.frames[i].body.code = "service_unavailable"
                        /\ rq.frames[i].body.circuit_breaker
                ELSE /\ rq.status = 503
                     /\ rq.body.code = "service_unavailable"
                     /\ rq.body.circuit_breaker

\* C13: each failed attempt of the primary-provider call records exactly
\* one failure with the primary breaker, in unary and in streaming mode
\* alike: the step that takes a failed reply changes the health record as
\* one call of recordServiceFailure does.
C13_OneFailurePerFailedAttempt ==
    [][\A c \in Clients :
          (/\ req[c].pc = "prim_wait"
           /\ req'[c].pc # "prim_wait"
           /\ req'[c].pc # "streaming"
           /\ req'[c].body # OkBody)
            => health' = RecordServiceFailure(health, "secondProvider", now)]_vars

\* C14: every non-violation error of the moderation call (no verdict was
\* obtained) is recorded as one failure of the shared primary breaker, and
\* a content-violation verdict leaves the breaker's record unchanged.
C14_ModerationFailureCounted ==
    [][\A c \in Clients :
          (req[c].pc = "mod_wait" /\ req'[c].pc # "mod_wait")
            => IF req'[c].verdict.got
               THEN health' = health
               ELSE health' =
                      CheckCircuitBreaker(
                          RecordServiceFailure(health, "secondProvider", now),
                          "firstProvider", now).health]_vars

\* C15: every request that reaches the chat dispatcher is counted by the
\* global burst counter: the step in which the dispatcher handles a request
\* changes the counter as one call of increment() does (which trips the
\* burst breaker for 60 s once more than 500 requests fall in one second).
C15_DispatcherCountsRequests ==
    [][\A c \in Clients :
          (req[c].pc = "completions" /\ req'[c].pc # "completions")
            => grc' = GlobalIncrement(grc, now)]_vars

\* C16: in a streaming response with no error frame in it (not cut by the
\* inactivity time-out or by an upstream error) the client has received
\* exactly the chunks the upstream has emitted so far, unmodified and in
\* order, with nothing before or between them, followed by at most one
\* [DONE] frame.
C16_ChunksPassedThrough ==
    \A c \in Clients :
        LET rq == req[c]
            n == Len(rq.frames)
            k == rq.received
        IN  (rq.stream /\ \A i \in 1..n : rq.frames[i].kind # "error")
              => /\ n \in {k, k + 1}
                 /\ \A i \in 1..k : rq.frames[i] = Chunk(i)
                 /\ n = k + 1 => rq.frames[n] = DoneFrame

\* a stream of MaxChunks chunks has been relayed and has ended
C16_Witness ==
    \E c \in Clients :
        /\ req[c].pc = "done"
        /\ req[c].ended
        /\ req[c].received = MaxChunks
        /\ Len(req[c].frames) >= MaxChunks
        /\ \A i \in DOMAIN req[c].frames : req[c].frames[i].kind # "error"

\* the step is a run of the watchdog callback of request c
TickStep(c) ==
    /\ req[c].checkInterval
    /\ req'[c].pc = req[c].pc
    /\ req'[c].tickAt # req[c].tickAt

\* C17: a watchdog tick that finds more than streamTimeout ms passed since
\* the last upstream chunk, on a response still open, writes one error
\* frame with code stream_timeout, then [DONE], and ends the response; a
\* tick that finds less leaves the response alone; and, the watchdog
\* ticking every 10 s, no open response with a live watchdog is ever
\* silent for more than streamTimeout + 10 s.
C17_WatchdogTimesOut ==
    [][\A c \in Clients :
          /\ (TickStep(c) /\ ~req[c].ended)
               => IF now - req[c].lastDataTime > cfg.streamTimeout
                  THEN /\ req'[c].frames =
                            req[c].frames \o <<ErrorFrame(TimeoutBody), DoneFrame>>
                       /\ req'[c].ended
                       /\ ~req'[c].checkInterval
                  ELSE /\ req'[c].frames = req[c].frames
                       /\ ~req'[c].ended
          /\ (req'[c].checkInterval /\ ~req'[c].ended)
               => now' - req'[c].lastDataTime <= cfg.streamTimeout + 10000]_vars

\* a stream that had delivered a chunk was cut by the watchdog
C17_Witness ==
    \E c \in Clients :
        LET rq == req[c] n == Len(rq.frames) IN
        /\ rq.pc = "streaming"
        /\ rq.received >= 1
        /\ rq.ended
        /\ n >= 3
        /\ rq.frames[n - 1] = ErrorFrame(TimeoutBody)
        /\ rq.frames[n] = DoneFrame

\* C18: once the client of a streaming request has disconnected, nothing
\* more is done for the request: no primary attempt is started, no upstream
\* chunk is taken (the upstream connection is closed), and the watchdog
\* does not tick (it is stopped).
C18_DisconnectCancels ==
    [][\A c \in Clients :
          (req[c].disconnected /\ req'[c].disconnected)
            => /\ req'[c].primCalls = req[c].primCalls
               /\ req'[c].received = req[c].received
               /\ ~TickStep(c)]_vars

\* C19: whatever message list the sampler is given, the bundle it returns
\* has a total content length of at most the budget of 30 000; an input
\* within the budget is returned unchanged with isExtracted = false, and
\* any other input gives isExtracted = true.
C19_SamplerWithinBudget ==
    \A c \in Clients :
        LET rq == req[c] IN
        rq.pc = "sampled"
          => /\ CalculateTotalLength(rq.sampled.messages) <= 30000
             /\ IF CalculateTotalLength(rq.messages) <= 30000
                THEN rq.sampled.messages = rq.messages /\ ~rq.sampled.isExtracted
                ELSE rq.sampled.isExtracted

\* an input over the budget came back with a non-user and a user message
\* cut short
C19_Witness ==
    \E c \in Clients :
        LET rq == req[c] out == rq.sampled.messages IN
        /\ rq.pc = "sampled"
        /\ CalculateTotalLength(rq.messages) > 30000
        /\ \E i, j \in DOMAIN out :
              /\ out[i].role = "system" /\ out[i].how = "cut"
              /\ out[j].role = "user" /\ out[j].how = "cut"

\* C20: with CHAT_RPM=2 and one client IP alone on the chat route, of the
\* requests made within one window the first two pass the rate limiter, and
\* after the third the headers say remaining = 0 and a reset time of the
\* window start plus 60 s.
C20_BurstOfThree ==
    cfg.limits[ChatPath] = 2 =>
      \A ip \in IPs :
        LET count == rl.ipRequestCounts[ip].m[ChatPath]
            start == rl.ipWindowStartTimes[ip].m[ChatPath]
            alone == /\ rl.requestCounts[ChatPath] = count
                     /\ rl.ipRequestCounts[GlobalKey(ip)].n = count
                     /\ rl.windowStartTimes[ChatPath] = start
                     /\ rl.ipWindowStartTimes[GlobalKey(ip)].n = start
            passed == Len(SelectSeq(passLog[ChatPath, ip], LAMBDA t : t >= start))
            info == GetRateLimitInfo(rl, ChatPath, ip, now)
        IN  (/\ rl.ipRequestCounts[ip].tag = "obj"
             /\ count \in 1..3
             /\ alone
             /\ now - start < WindowMs)
              => /\ passed = Min2(count, 2)
                 /\ count = 3 => /\ info.remaining = 0
                                 /\ info.reset = (start + 999) \div 1000 + 60

\* C21: the remaining value of the rate-limit headers is the minimum over
\* the three tiers of max(0, limit - count), the ip+route tier's limit
\* being the enforced floor(route limit * 0.25); so a key whose counts
\* exceed a limit (its latest request was limited) has remaining = 0.
C21_RemainingMatchesEnforcedLimits ==
    \A k \in RLTraffic :
        LET path == k[1]
            ip == k[2]
            info == GetRateLimitInfo(rl, path, ip, now)
            left(limit, count) == Max2(0, limit - count)
        IN  (rl.ipRequestCounts[ip].tag = "obj" /\ rl.ipRequestCounts[ip].m[path] # Undef)
              => /\ info.remaining =
                       Min2(left(PathLimit(path), rl.requestCounts[path]),
                            Min2(left(IpPathLimit(path), rl.ipRequestCounts[ip].m[path]),
                                 left(GlobalIpLimit, rl.ipRequestCounts[GlobalKey(ip)].n)))
                 /\ RLExceeded(rl, path, ip) => info.remaining = 0

\* every tracked window of the IP started more than 5 min + 60 s before t:
\* its last request is more than 5 minutes old
StaleIp(s, ip, t) ==
    /\ s.ipRequestCounts[ip].tag = "obj"
    /\ s.ipRequestCounts[GlobalKey(ip)].tag = "num"
    /\ t - s.ipWindowStartTimes[GlobalKey(ip)].n > InactiveThreshold + WindowMs
    /\ \A p \in Paths :
          \/ s.ipWindowStartTimes[ip].m[p] = Undef
          \/ t - s.ipWindowStartTimes[ip].m[p] > InactiveThreshold + WindowMs

\* C22: the periodic sweep removes a client IP that has sent no request
\* for more than 5 minutes from the rate-limit maps, its ip+route entry
\* and its global-ip entry alike.
C22_IdleIpSwept ==
    [][\A ip \in IPs :
          (StaleIp(rl, ip, now) /\ now' = now /\ rl' = ResetCounters(rl, now))
            => /\ rl'.ipRequestCounts[ip].tag = "undef"
               /\ rl'.ipRequestCounts[GlobalKey(ip)].tag = "undef"]_vars

\* C23: a chat-completions request whose model matches WHITELISTED_MODELS skips
\* moderation: once it has passed the rate limiter and authentication, no
\* moderation call is made for it and it is forwarded to the primary provider.
C23_WhitelistedSkipsModeration ==
    \A c \in env.clients :
        (req[c].whitelisted /\ req[c].pc = "done" /\ req[c].status # 429) =>
            req[c].modCalls = 0 /\ req[c].primCalls >= 1

\* C24: every endpoint requires Authorization: Bearer AUTH_KEY; a request
\* without valid auth is never proxied to the primary provider, and one that
\* reaches the authentication step is answered 401.  In particular a
\* GET /v1/models without an Authorization header is not proxied.
C24_EveryEndpointRequiresAuth ==
    \A c \in env.clients :
        ~req[c].auth =>
            /\ req[c].primCalls = 0
            /\ (/\ req[c].pc = "done"
                /\ req[c].path = ModelsPath
                /\ req[c].method = "GET"
                /\ req[c].limitedBy = "none") => req[c].status = 401

\* C25: when the moderation call of a unary request fails with an error that
\* is not a violation (no reply, timeout, 5xx) and the breaker is not tripped,
\* the client receives status 503 with code service_unavailable, and the
\* request is not forwarded to the primary provider.
ModerationCallFailed(rq) ==
    /\ rq.pc = "done" /\ ~rq.stream /\ rq.path = ChatPath
    /\ rq.modCalls = 1 /\ ~rq.verdict.got
    /\ ~rq.body.circuit_breaker
    /\ rq.body.message \in {"axios", "provider"}

C25_ModerationFailureAnswered503 ==
    \A c \in env.clients :
        ModerationCallFailed(req[c]) =>
            /\ req[c].status = 503
            /\ req[c].body.code = "service_unavailable"
            /\ req[c].primCalls = 0

\* C26: when the retry loop exits because the time limit or the count limit
\* is reached, the client receives the last provider error: its HTTP status
\* (500 when there was no reply) and its message (the provider's message when
\* the body is a JSON error, the request error's message otherwise), and no
\* synthetic retry-timeout error takes its place.
ExitedByLimit(rq) ==
    /\ rq.pc = "done" /\ cfg.enableRetry = TRUE
    /\ rq.primCalls >= 1 /\ rq.retryCount >= 1
    /\ rq.body # OkBody

JustTripped(h, t) ==
    /\ h.circuitBreakerTripped
    /\ h.circuitBreakerResetTime = t + BreakerHoldMs
    /\ h.lastFailureTime = t
    /\ h.failureCount = 0

C27_TripNeedsFailuresWithinWindow ==
    JustTripped(health, now) => now - health.countingSince <= cfg.errorWindow

\* C28: when a streaming primary call returns a non-2xx status whose body is
\* JSON of the form {error: {message, code}}, the error delivered to the
\* client carries the provider's message and code; when the body is not JSON
\* the raw body is the message.
ProviderErrorRelayed(rq) ==
    /\ rq.pc = "done" /\ rq.stream /\ ~rq.wroteAfterEnd
    /\ rq.lastReply.status \notin {0, 200}

C28_StreamErrorKeepsProviderMessage ==
    \A c \in env.clients :
        ProviderErrorRelayed(req[c]) =>
            \E i \in DOMAIN req[c].frames :
                LET f == req[c].frames[i] IN
                /\ f.kind = "error"
                /\ f.body.ncode = req[c].lastReply.status
                /\ f.body.message =
                      IF req[c].lastReply.json THEN "provider" ELSE "raw_body"
                /\ f.body.provider_code =
                      IF req[c].lastReply.json THEN "provider" ELSE "none"

\* C29: on every path on which a streaming request's response is finished,
\* the request's watchdog interval is cleared no later than the moment the
\* response ends: no request has an ended response and a live interval.
C29_WatchdogClearedAtEnd ==
    \A c \in env.clients :
        (req[c].stream /\ req[c].ended) => ~req[c].checkInterval

\* C30: each rate-limit check performs the expire, increment and evaluate
\* steps on its three counters atomically.  In every step in which a check
\* on (path, ip) shows in the counters, each of the route counter, the
\* ip+route counter and the per-IP total is its value before the step plus
\* one within the same window, or 1 in a window started at this check (the
\* old window had expired or counted nothing); and a counter changes in no
\* other way than by a check or by a reset to 0.  So n checks on one key
\* within one window leave its count at n, whatever other keys are checked
\* in between.
Cnt(x) == IF Falsy(x) THEN 0 ELSE x
PathCounter(s, p) ==
    [count |-> Cnt(s.requestCounts[p]), start |-> s.windowStartTimes[p]]
IpPathCounter(s, ip, p) ==
    [count |-> Cnt(s.ipRequestCounts[ip].m[p]), start |-> s.ipWindowStartTimes[ip].m[p]]
GlobalIpCounter(s, ip) ==
    [count |-> s.ipRequestCounts[GlobalKey(ip)].n,
     start |-> s.ipWindowStartTimes[GlobalKey(ip)].n]

\* counter a became counter b by one check at time t
CountedOnce(a, b, t) ==
    \/ b.count = a.count + 1 /\ b.start = a.start
    \/ b.count = 1 /\ b.start = t /\ (a.count = 0 \/ t - a.start > WindowMs)
\* a check shows in the step from counter a to counter b
Checked(a, b) == b.count >= 1 /\ a # b
\* counter a was reset, or left alone
ResetOrKept(a, b) == b = a \/ b.count = 0

C30_CheckIsAtomic ==
    [][\A p \in Paths, ip \in IPs :
          LET a1 == PathCounter(rl, p)
              b1 == PathCounter(rl', p)
              a2 == IpPathCounter(rl, ip, p)
              b2 == IpPathCounter(rl', ip, p)
              a3 == GlobalIpCounter(rl, ip)
              b3 == GlobalIpCounter(rl', ip)
          IN  /\ (Checked(a2, b2) \/ (Checked(a1, b1) /\ Checked(a3, b3))) =>
                    /\ CountedOnce(a1, b1, now)
                    /\ CountedOnce(a2, b2, now)
                    /\ CountedOnce(a3, b3, now)
              /\ CountedOnce(a1, b1, now) \/ ResetOrKept(a1, b1)
              /\ CountedOnce(a2, b2, now) \/ ResetOrKept(a2, b2)
              /\ CountedOnce(a3, b3, now) \/ ResetOrKept(a3, b3)]_vars

\* three checks on the chat route in one window, two from one IP with one
\* from another IP in between or around them: the route counts 3, the IPs 2
\* and 1
C30_Witness ==
    /\ PathCounter(rl, ChatPath).count = 3
    /\ IpPathCounter(rl, IpA, ChatPath).count = 2
    /\ IpPathCounter(rl, IpB, ChatPath).count = 1
    /\ GlobalIpCounter(rl, IpA).count = 2
    /\ GlobalIpCounter(rl, IpB).count = 1

\* C31: with k >= 2 moderation models and the round-robin strategy, every
\* selection returns the model at the shared index and moves the index to
\* the next position modulo k, so that successive selections return
\* models[0], models[1], ..., models[k-1], models[0], ... also when the
\* moderation calls of concurrent requests overlap; the index stays within
\* 0..k-1.
Selects(c) == req[c].pc = "handler" /\ req'[c].pc = "mod_wait"

C31_RoundRobinInOrder ==
    [][Len(cfg.models) >= 2 =>
          /\ moderationModelIndex \in 0 .. (Len(cfg.models) - 1)
          /\ moderationModelIndex' \in 0 .. (Len(cfg.models) - 1)
          /\ \A c \in env.clients :
                IF Selects(c)
                THEN /\ req'[c].model = cfg.models[moderationModelIndex + 1]
                     /\ moderationModelIndex' =
                           (moderationModelIndex + 1) % Len(cfg.models)
                ELSE req'[c].model \in {req[c].model, "none"}
          /\ (\A c \in env.clients : ~Selects(c)) =>
                moderationModelIndex' = moderationModelIndex]_vars

\* three models: the moderation calls of two requests are in flight together,
\* one with the last model and one with the first again
C31_Witness ==
    /\ Len(cfg.models) = 3
    /\ req[1].pc = "mod_wait" /\ req[1].model = "m3"
    /\ req[2].pc = "mod_wait" /\ req[2].model = "m1"
    /\ moderationModelIndex = 1

\* C32: starting from an empty limiter, two checks for the same route and IP
\* made 61 s apart see identical counter state: the second check expires all
\* three windows and, like the first, ends with count = 1 in each tier and
\* the same limited / remaining result.
\* the limiter holds one check on (p, ip), made 61 s ago on an empty limiter,
\* and nothing else
OneCheckAgo(p, ip) ==
    /\ now - SelectStep >= Epoch
    /\ rl = IsRateLimited(RateLimiterInit, p, ip, now - SelectStep).rl

C32_SecondCheckSeesColdState ==
    [][\A k \in RLTraffic :
          LET p == k[1]
              ip == k[2]
          IN  (/\ OneCheckAgo(p, ip)
               /\ Checked(IpPathCounter(rl, ip, p), IpPathCounter(rl', ip, p))) =>
                  /\ PathCounter(rl', p) = [count |-> 1, start |-> now]
                  /\ IpPathCounter(rl', ip, p) = [count |-> 1, start |-> now]
                  /\ GlobalIpCounter(rl', ip) = [count |-> 1, start |-> now]
                  /\ RLExceeded(rl', p, ip) = RLExceeded(rl, p, ip)
                  /\ GetRateLimitInfo(rl', p, ip, now).remaining =
                        GetRateLimitInfo(rl, p, ip, now - SelectStep).remaining]_vars

\* the limiter after the second of two checks of IP B on the chat route, the
\* first made at the start and the second 61 s later: one request counted in
\* each tier, in windows that start at the second check
C32_Witness ==
    /\ now = Epoch + SelectStep
    /\ rl = IsRateLimited(IsRateLimited(RateLimiterInit, ChatPath, IpB, Epoch).rl,
                          ChatPath, IpB, now).rl
    /\ PathCounter(rl, ChatPath) = [count |-> 1, start |-> now]
    /\ GlobalIpCounter(rl, IpB) = [count |-> 1, start |-> now]

\* C33: with an empty moderation model list, every chat-completions request
\* that needs moderation fails fast: the handler answers it with an error in
\* the step in which it starts, without a call to the moderation provider or
\* the primary provider, without a retry, and without recording a provider
\* failure.
ErrorAnswered(rq) ==
    /\ rq.pc = "done" /\ rq.ended
    /\ IF rq.stream
       THEN \E i \in DOMAIN rq.frames : rq.frames[i].kind = "error"
       ELSE rq.status >= 400

NumFrames(rq, kind) ==
    Cardinality({i \in DOMAIN rq.frames : rq.frames[i].kind = kind})

\* a step of request c that calls res.write or res.end on its ended response
ActsOnEnded(c) ==
    /\ req[c].stream /\ req[c].ended /\ req'[c].ended
    /\ \/ ~req[c].wroteAfterEnd /\ req'[c].wroteAfterEnd
       \/ req[c].pc # "done" /\ req'[c].pc = "done"

C34_NothingAfterEnd ==
    [][\A c \in env.clients :
          /\ ~ActsOnEnded(c)
          /\ NumFrames(req'[c], "error") <= 1
          /\ NumFrames(req'[c], "done") <= 1]_vars

\* C35: requests from one client IP cannot make a request from another IP
\* be limited: a check for IP b on a route passes whenever b is within its
\* own ip+route limit and its own per-IP total, and fewer than L requests
\* have passed on the route in the route's current window, however many
\* requests other IPs have made (and were refused).
\* the passes logged for the keys since time t0
PassesSince(keys, t0) ==
    LET n(k) == Cardinality({i \in DOMAIN passLog[k] : passLog[k][i] >= t0})
        sum[S \in SUBSET keys] ==
            IF S = {} THEN 0
            ELSE LET k == CHOOSE x \in S : TRUE IN n(k) + sum[S \ {k}]
    IN  sum[keys]

C35_OtherClientsDoNotLimit ==
    [][\A p \in Paths, b \in IPs :
          (/\ Checked(IpPathCounter(rl, b, p), IpPathCounter(rl', b, p))
           /\ IpPathCounter(rl', b, p).count <= IpPathLimit(p)
           /\ GlobalIpCounter(rl', b).count <= GlobalIpLimit
           /\ PassesSince({p} \X IPs, PathCounter(rl', p).start) < PathLimit(p))
             => Len(passLog'[p, b]) = Len(passLog[p, b]) + 1]_vars

\* C37: within one window of a counter (from one reset of the counter to
\* the next) at most L requests pass on a route with limit L, at most
\* floor(L * 0.25) requests of one IP pass on that route, and at most
\* GLOBAL_IP_RPM requests of one IP pass on all routes together.
C37_WindowAdmitsAtMostLimit ==
    /\ \A p \in Paths :
          PassesSince({p} \X IPs, PathCounter(rl, p).start) <= PathLimit(p)
    /\ \A p \in Paths, ip \in IPs :
          PassesSince({<<p, ip>>}, IpPathCounter(rl, ip, p).start) <= IpPathLimit(p)
    /\ \A ip \in IPs :
          PassesSince(Paths \X {ip}, GlobalIpCounter(rl, ip).start) <= GlobalIpLimit

\* an IP has used up its per-IP total in the current window, on two routes,
\* and a further request of it was refused
C37_Witness ==
    /\ GlobalIpLimit = 2
    /\ GlobalIpCounter(rl, IpA).count = 3
    /\ PassesSince({<<ChatPath, IpA>>}, GlobalIpCounter(rl, IpA).start) = 1
    /\ PassesSince({<<ImagesPath, IpA>>}, GlobalIpCounter(rl, IpA).start) = 1

\* C39: whatever recordServiceFailure, checkCircuitBreaker and the background
\* tick have done, the primary breaker's failureCount is between 0 and
\* maxErrors, and every step that sets or clears the tripped flag leaves
\* failureCount at 0.
C39_FailureCountBounded ==
    /\ [](0 <= health.failureCount /\ health.failureCount <= cfg.maxErrors)
    /\ [][health'.circuitBreakerTripped # health.circuitBreakerTripped
              => health'.failureCount = 0]_vars

\* the breaker has tripped at the third failure and has been cleared again
C39_Witness ==
    /\ cfg.maxErrors = 2
    /\ ~health.circuitBreakerTripped
    /\ health.circuitBreakerResetTime > 0
    /\ health.lastFailureTime > 0
    /\ health.failureCount = 0

\* C38: every chat-completions request eventually gets a finished response,
\* provided every provider call eventually returns or fails and timers
\* fire: the retry loop ends after finitely many attempts, and a streaming
\* response whose upstream stalls is ended by the watchdog.
C38_EveryRequestAnswered ==
    \A c \in Clients : (req[c].pc # "idle") ~> req[c].ended

\* a streaming response whose upstream sent nothing after the first chunk,
\* ended by the watchdog with the time-out frame
C38_Witness ==
    \E c \in env.clients :
        /\ req[c].pc = "streaming" /\ req[c].ended /\ req[c].received = 1
        /\ Len(req[c].frames) = 3
        /\ req[c].frames[2] = ErrorFrame(TimeoutBody)

\* C36: moderation fails closed.  When the moderation call of a request
\* ends without a verdict (no reply, a non-2xx reply, or a reply whose
\* content does not parse), the handler answers the client with an error in
\* that step and the request is never given to the primary provider; a
\* moderated request reaches the primary provider only with a verdict.
C36_ModerationFailsClosed ==
    [][\A c \in env.clients :
          /\ (/\ req[c].pc = "mod_wait" /\ req'[c].pc # "mod_wait"
              /\ ~req'[c].verdict.got) =>
                 /\ ErrorAnswered(req'[c])
                 /\ req'[c].primCalls = 0 /\ req'[c].sendCalls = 0
          /\ (req'[c].primCalls >= 1 /\ ~req'[c].skipModeration) =>
                 req'[c].verdict.got]_vars

\* a unary request whose moderation reply did not parse, answered 500 while
\* the breaker stays closed
C36_Witness ==
    \E c \in env.clients :
        /\ req[c].pc = "done" /\ ~req[c].stream /\ ~req[c].skipModeration
        /\ req[c].modCalls = 1 /\ ~req[c].verdict.got
        /\ req[c].body.message = "parse" /\ req[c].status = 500
        /\ req[c].primCalls = 0

\* the counters the limiter keeps for header value b: its ip+route object and
\* its per-IP total, with their window starts
CountersOf(s, b) ==
    <<s.ipRequestCounts[b], s.ipWindowStartTimes[b],
      s.ipRequestCounts[GlobalKey(b)], s.ipWindowStartTimes[GlobalKey(b)]>>

\* C40: a check for the client IP a changes the route's counter, a's
\* ip+route counter and a's per-IP total only: the ip+route counter and the
\* per-IP total of every other IP b are the same after the check as before,
\* whatever string the header gave as the IP.
C40_CountersNeverAlias ==
    [][\A k \in AliasTraffic :
          RLCheck(k[1], k[2])
              => \A b \in IPs \ {k[2]} : CountersOf(rl', b) = CountersOf(rl, b)]_vars

====
